---- MODULE Spec2Model ----
(***************************************************************************)
(* Delaunay triangulation (Bowyer-Watson) and Voronoi dual of               *)
(* Phase_2/CLAUDE/voronoi_project.                                          *)
(*                                                                          *)
(* Numbers.  The inputs are points with integer coordinates.  Every         *)
(* coordinate is stored in half units (Stored), so that the midpoints the   *)
(* super-triangle is built from are integers too.  Quantities the code      *)
(* gets by division (circumcentre, squared radius) are kept as exact        *)
(* fractions over the determinant D, and every comparison of the code is    *)
(* made on the cross-multiplied integers.  These integers exceed 32 bits,   *)
(* so they are held as Limbs digits in base Base (complement form).         *)
(* In Spec and VorSpec the model is the code over the rationals.  The      *)
(* calls on one Triangle (TriSpec) and the bowyer_watson of the wide grid   *)
(* (WideSpec) compute as the floats of Python do, in IEEE 754 doubles with  *)
(* every operation rounded to the nearest.                                  *)
(***************************************************************************)
EXTENDS Integers, Sequences, FiniteSets, TLC

\* ---- bounds of the model -------------------------------------------------
GridMax == 2
MaxPts == 4
MaxWide == 3
Stretch == 100
Base == 10000
Limbs == 8
Fix == 10080
MaxPoly == 4
MaxCalls == 2
Wide == 128

\* ---- program constants ---------------------------------------------------
\* EPS = 1e-9 (geometry/primitives.py): EPS = 1 / EpsInv, EpsInv = EpsRoot^3
EpsRoot == 1000
EpsInv == EpsRoot * EpsRoot * EpsRoot

\* the stored form (half units) of the number r
Stored(r) == 2 * r

\* a cached value that is not computed yet, and the infinite one
None == [kind |-> "None"]
Inf == [kind |-> "inf"]

\* ---- exact integer arithmetic on Limbs digits ----------------------------
Abs(n) == IF n < 0 THEN -n ELSE n
Max(a, b) == IF a >= b THEN a ELSE b
Min(a, b) == IF a <= b THEN a ELSE b

RECURSIVE Norm(_, _, _)
Norm(s, k, c) ==
    IF k > Limbs THEN <<>>
    ELSE LET t == s[k] + c IN <<t % Base>> \o Norm(s, k + 1, t \div Base)

RECURSIVE BigFrom(_, _)
BigFrom(n, k) ==
    IF k > Limbs THEN <<>> ELSE <<n % Base>> \o BigFrom(n \div Base, k + 1)

Big(n) == BigFrom(n, 1)
BAdd(a, b) == Norm([k \in 1..Limbs |-> a[k] + b[k]], 1, 0)
BSub(a, b) == Norm([k \in 1..Limbs |-> a[k] - b[k]], 1, 0)
BNeg(a) == Norm([k \in 1..Limbs |-> 0 - a[k]], 1, 0)
BIsNeg(a) == a[Limbs] >= Base \div 2
BIsZero(a) == \A k \in 1..Limbs : a[k] = 0
BLess(a, b) == BIsNeg(BSub(a, b))
BAbs(a) == IF BIsNeg(a) THEN BNeg(a) ELSE a
\* n * a for an ordinary integer n with |n| * Base below 2^31
BScale(n, a) == Norm([k \in 1..Limbs |-> n * a[k]], 1, 0)

RECURSIVE BLen(_, _)
BLen(a, k) == IF k = 0 THEN 0 ELSE IF a[k] # 0 THEN k ELSE BLen(a, k - 1)

RECURSIVE BDot(_, _, _, _, _)
BDot(a, b, k, i, hi) ==
    IF i > hi THEN 0 ELSE a[i] * b[k + 1 - i] + BDot(a, b, k, i + 1, hi)

\* product of two non-negative numbers, digit by digit
BMulAbs(a, b) ==
    LET la == BLen(a, Limbs)
        lb == BLen(b, Limbs)
    IN  Norm([k \in 1..Limbs |->
                BDot(a, b, k, Max(1, k + 1 - lb), Min(k, la))], 1, 0)

BMul(a, b) ==
    LET m == BMulAbs(BAbs(a), BAbs(b))
    IN  IF BIsNeg(a) = BIsNeg(b) THEN m ELSE BNeg(m)

BSq(a) == LET m == BAbs(a) IN BMulAbs(m, m)

\* a \div n for a >= 0 and an ordinary integer n with n * Base below 2^31:
\* long division from the top digit, r the running remainder; the digits of
\* the quotient from the top one down
RECURSIVE BDivFrom(_, _, _, _)
BDivFrom(a, n, k, r) ==
    IF k = 0 THEN <<>>
    ELSE LET cur == r * Base + a[k]
         IN  <<cur \div n>> \o BDivFrom(a, n, k - 1, cur % n)

BDiv(a, n) ==
    LET top_down == BDivFrom(a, n, Limbs, 0)
    IN  [k \in 1..Limbs |-> top_down[Limbs + 1 - k]]

\* EPS * a rounded down, for a >= 0.  With x and y integers,
\* x < y - EPS * a  is  x < y - BEpsFloor(a).
BEpsFloor(a) == BDiv(BDiv(BDiv(a, EpsRoot), EpsRoot), EpsRoot)

\* x < EPS * Stored(1) for an integer x >= 0 (a stored coordinate difference)
LtEps(x) == x <= (Stored(1) - 1) \div EpsInv

\* ---- the floats of Python ---------------------------------------------------
\* A float is an IEEE 754 double: a sign, a whole number m of at most DBits
\* bits and an exponent e, standing for m * 2^e; m is 0 or has exactly DBits
\* bits, so that equal numbers are equal records.  m is kept in DLimbs digits
\* of DDigit bits, the lowest first.  Every operation gives the double that is
\* nearest to the exact result, the one with an even m on a tie.  Exponents
\* are not bounded: the numbers of the model are far from the largest and the
\* smallest doubles.
DBits == 53
DDigit == 13
\* room for the product of two numbers of DBits bits, and for a number of
\* DBits bits moved up by DBits + 2 bits
DLimbs == (2 * DBits + 2 + DDigit - 1) \div DDigit
DRadix == 2^DDigit

MZero == [k \in 1..DLimbs |-> 0]

RECURSIVE MNorm(_, _, _)
MNorm(s, k, c) ==
    IF k > DLimbs THEN <<>>
    ELSE LET t == s[k] + c IN <<t % DRadix>> \o MNorm(s, k + 1, t \div DRadix)

\* the digits of an ordinary integer n >= 0
RECURSIVE MFrom(_, _)
MFrom(n, k) ==
    IF k > DLimbs THEN <<>> ELSE <<n % DRadix>> \o MFrom(n \div DRadix, k + 1)

MAdd(a, b) == MNorm([k \in 1..DLimbs |-> a[k] + b[k]], 1, 0)
\* a - b for a >= b
MSub(a, b) == MNorm([k \in 1..DLimbs |-> a[k] - b[k]], 1, 0)

RECURSIVE MLessFrom(_, _, _)
MLessFrom(a, b, k) ==
    IF k = 0 THEN FALSE
    ELSE IF a[k] # b[k] THEN a[k] < b[k]
    ELSE MLessFrom(a, b, k - 1)

MLess(a, b) == MLessFrom(a, b, DLimbs)

RECURSIVE MDot(_, _, _, _)
MDot(a, b, k, i) ==
    IF i > k THEN 0 ELSE a[i] * b[k + 1 - i] + MDot(a, b, k, i + 1)

\* the product of two numbers that fits in DLimbs digits
MMul(a, b) == MNorm([k \in 1..DLimbs |-> MDot(a, b, k, 1)], 1, 0)

RECURSIVE MTop(_, _)
MTop(a, k) == IF k = 0 THEN 0 ELSE IF a[k] # 0 THEN k ELSE MTop(a, k - 1)

RECURSIVE IntBits(_)
IntBits(n) == IF n = 0 THEN 0 ELSE 1 + IntBits(n \div 2)

\* the number of bits of a
MBitLen(a) ==
    LET bits(top) ==
            IF top = 0 THEN 0 ELSE DDigit * (top - 1) + IntBits(a[top])
    IN  bits(MTop(a, DLimbs))

MDigit(a, k) == IF k >= 1 /\ k <= DLimbs THEN a[k] ELSE 0

\* a \div 2^n
MShr(a, n) ==
    LET shifted(q, b) ==
            [k \in 1..DLimbs |->
                (MDigit(a, k + q) \div 2^b)
                    + (MDigit(a, k + q + 1) % 2^b) * 2^(DDigit - b)]
    IN  shifted(n \div DDigit, n % DDigit)

\* a * 2^n, for a product that fits in DLimbs digits
MShl(a, n) ==
    LET shifted(q, b) ==
            [k \in 1..DLimbs |->
                (MDigit(a, k - q) % 2^(DDigit - b)) * 2^b
                    + (MDigit(a, k - q - 1) \div 2^(DDigit - b))]
    IN  shifted(n \div DDigit, n % DDigit)

\* bit n of a, bit 0 the lowest
MBit(a, n) == (a[(n \div DDigit) + 1] \div 2^(n % DDigit)) % 2

\* (-1)^neg * M * 2^e rounded to the nearest double
DRound(neg, M, e) ==
    LET carried(r, k) ==
            IF MBitLen(r) > DBits
            THEN [neg |-> neg, m |-> MShr(r, 1), e |-> e + k + 1]
            ELSE [neg |-> neg, m |-> r, e |-> e + k]
        cut(q, k) ==
            IF /\ MBit(M, k - 1) = 1
               /\ (MShl(MShr(M, k - 1), k - 1) # M \/ MBit(q, 0) = 1)
            THEN carried(MAdd(q, MFrom(1, 1)), k)
            ELSE carried(q, k)
        rounded(L) ==
            IF L = 0 THEN [neg |-> FALSE, m |-> MZero, e |-> 0]
            ELSE IF L <= DBits
            THEN [neg |-> neg, m |-> MShl(M, DBits - L), e |-> e - (DBits - L)]
            ELSE cut(MShr(M, L - DBits), L - DBits)
    IN  rounded(MBitLen(M))

\* float(n) for an ordinary integer n
DFromInt(n) == DRound(n < 0, MFrom(Abs(n), 1), 0)

DNeg(x) == IF x.m = MZero THEN x ELSE [x EXCEPT !.neg = ~x.neg]

\* x * y
DMul(x, y) == DRound(x.neg # y.neg, MMul(x.m, y.m), x.e + y.e)

\* x + y.  A term that is below an eighth of the last bit of the other one
\* does not change it.
DAdd(x, y) ==
    LET sum(big, small, X) ==
            DRound(IF big.neg # small.neg /\ MLess(X, small.m)
                   THEN small.neg ELSE big.neg,
                   IF big.neg = small.neg THEN MAdd(X, small.m)
                   ELSE IF MLess(X, small.m) THEN MSub(small.m, X)
                   ELSE MSub(X, small.m),
                   small.e)
        ordered(big, small) ==
            IF big.e - small.e > DBits + 2 THEN big
            ELSE sum(big, small, MShl(big.m, big.e - small.e))
    IN  IF x.m = MZero THEN y
        ELSE IF y.m = MZero THEN x
        ELSE ordered(IF x.e >= y.e THEN x ELSE y, IF x.e >= y.e THEN y ELSE x)

\* x - y
DSub(x, y) == DAdd(x, DNeg(y))

\* x < y
DLess(x, y) ==
    \E d \in {DSub(x, y)} : d.m # MZero /\ d.neg

\* A number below 2^(6 * DDigit) in three parts of two digits each, the
\* lowest first, as the division keeps its remainder
Parts(a) ==
    <<a[1] + DRadix * a[2], a[3] + DRadix * a[4], a[5] + DRadix * a[6]>>

\* the next j bits of the quotient r / n for 0 <= r < n, and the remainder
RECURSIVE DivBits(_, _, _, _)
DivBits(r, n, j, acc) ==
    IF j = 0 THEN <<acc, r>>
    ELSE LET R == DRadix * DRadix
             lo == 2 * r[1]
             mid == 2 * r[2] + (lo \div R)
             twice == <<lo % R, mid % R, 2 * r[3] + (mid \div R)>>
             less == \/ twice[3] < n[3]
                     \/ twice[3] = n[3] /\ twice[2] < n[2]
                     \/ twice[3] = n[3] /\ twice[2] = n[2] /\ twice[1] < n[1]
             d1 == twice[1] - n[1]
             d2 == twice[2] - n[2] - (IF d1 < 0 THEN 1 ELSE 0)
             d3 == twice[3] - n[3] - (IF d2 < 0 THEN 1 ELSE 0)
         IN  IF less THEN DivBits(twice, n, j - 1, 2 * acc)
             ELSE DivBits(<<d1 % R, d2 % R, d3>>, n, j - 1, 2 * acc + 1)

\* the next k digits of the quotient r / n, the highest first, and after them
\* the remainder
RECURSIVE DivDigits(_, _, _)
DivDigits(r, n, k) ==
    IF k = 0 THEN <<r>>
    ELSE LET rest(step) == <<step[1]>> \o DivDigits(step[2], n, k - 1)
         IN  rest(DivBits(r, n, DDigit, 0))

\* x / y for y # 0: the whole part of the quotient of the two m, which is 0
\* or 1, DivFrac digits after it, and a last bit set when the division leaves
\* a remainder
DivFrac == (DBits + 2 + DDigit) \div DDigit

DDiv(x, y) ==
    LET F == DivFrac
        number(q0, digits) ==
            DRound(x.neg # y.neg,
                   [k \in 1..DLimbs |->
                       IF k = 1
                       THEN IF digits[F + 1] # <<0, 0, 0>> /\ digits[F] % 2 = 0
                            THEN digits[F] + 1 ELSE digits[F]
                       ELSE IF k <= F THEN digits[F + 1 - k]
                       ELSE IF k = F + 1 THEN q0
                       ELSE 0],
                   x.e - y.e - F * DDigit)
        divided(q0) ==
            number(q0, DivDigits(Parts(IF q0 = 1 THEN MSub(x.m, y.m) ELSE x.m),
                                 Parts(y.m), F))
    IN  IF x.m = MZero THEN x
        ELSE divided(IF MLess(x.m, y.m) THEN 0 ELSE 1)

\* x * 2^n
DScale2(x, n) == IF x.m = MZero THEN x ELSE [x EXCEPT !.e = @ + n]

\* the float of a stored coordinate
DStored(c) == DScale2(DFromInt(c), 0 - 1)

\* EPS = 1e-9 as a float
EpsDouble == DDiv(DFromInt(1), DFromInt(EpsInv))

\* ---- geometry/primitives.py ----------------------------------------------
pts_equal(a, b) == LtEps(Abs(a[1] - b[1])) /\ LtEps(Abs(a[2] - b[2]))

edge_equal(e1, e2) ==
    \/ pts_equal(e1[1], e2[1]) /\ pts_equal(e1[2], e2[2])
    \/ pts_equal(e1[1], e2[2]) /\ pts_equal(e1[2], e2[1])

\* ---- geometry/triangle.py ------------------------------------------------
\* Triangle.__init__: the cached circle is unset
Triangle(a, b, c) == [a |-> a, b |-> b, c |-> c, cc |-> None, cr2 |-> None]

\* Triangle._compute_circumcircle.  The centre is (ux, uy) = (nx / D, ny / D)
\* and the squared radius is r2 / D^2; the record keeps nx, ny, D, r2 and D^2.
compute_circumcircle(t) ==
    LET ax == t.a[1]
        ay == t.a[2]
        bx == t.b[1]
        by == t.b[2]
        cx == t.c[1]
        cy == t.c[2]
        D == BScale(2, BAdd(BAdd(BScale(by - cy, Big(ax)),
                                 BScale(cy - ay, Big(bx))),
                            BScale(ay - by, Big(cx))))
        a2 == ax * ax + ay * ay
        b2 == bx * bx + by * by
        c2 == cx * cx + cy * cy
        nx == BAdd(BAdd(BScale(by - cy, Big(a2)), BScale(cy - ay, Big(b2))),
                   BScale(ay - by, Big(c2)))
        ny == BAdd(BAdd(BScale(cx - bx, Big(a2)), BScale(ax - cx, Big(b2))),
                   BScale(bx - ax, Big(c2)))
        \* abs(D) < EPS, D an integer in squared half units
        degenerate ==
            BLess(BAbs(D), Big(((Stored(1) * Stored(1) - 1) \div EpsInv) + 1))
    IN  IF degenerate
        THEN [t EXCEPT !.cc = Inf, !.cr2 = Inf]
        ELSE [t EXCEPT !.cc = [kind |-> "finite", nx |-> nx, ny |-> ny, D |-> D],
                       !.cr2 = [kind |-> "finite",
                                r2 |-> BAdd(BSq(BSub(BScale(ax, D), nx)),
                                            BSq(BSub(BScale(ay, D), ny))),
                                D2 |-> BSq(D)]]

\* the triangle with its circle cached (the lazy properties)
Cached(t) == IF t.cr2.kind = "None" THEN compute_circumcircle(t) ELSE t

\* Triangle.in_circumcircle on a triangle whose circle is cached:
\* dx*dx + dy*dy < cr2 - EPS, multiplied by D^2 (EPS in squared half units)
\* in exact arithmetic.  On the lists of Inputs the floats of Python give the
\* same answers; in_circumcircle_double below is the test as the floats
\* compute it, for the triangles where they do not.
in_circumcircle(t, p) ==
    IF t.cr2.kind = "inf" THEN FALSE
    ELSE LET dx == BSub(BScale(p[1], t.cc.D), t.cc.nx)
             dy == BSub(BScale(p[2], t.cc.D), t.cc.ny)
         IN  \E d2 \in {BAdd(BSq(dx), BSq(dy))} :
             \E bound \in {BSub(t.cr2.r2,
                                BEpsFloor(BScale(Stored(1) * Stored(1),
                                                 t.cr2.D2)))} :
                 BLess(d2, bound)

\* _compute_circumcircle in the arithmetic of the floats, operation by
\* operation.  The coordinates are in stored units, so that D below is 4
\* times the D of the code and the two numerators are 8 times its
\* numerators: powers of two, which no rounding sees.  D is a multiple of
\* 1/2 in the units of the code, so that abs(D) < EPS holds for D = 0 only.
compute_circumcircle_double(t) ==
    LET f(n) == DFromInt(n)
        square(d) == DMul(d, d)
        sum3(u, v, w) == DAdd(DAdd(u, v), w)
        the(S) == CHOOSE r \in S : TRUE
        circle(ux, uy) ==
            [t EXCEPT !.cc = [kind |-> "finite", x |-> ux, y |-> uy],
                      !.cr2 = [kind |-> "finite",
                               v |-> DAdd(square(DSub(DStored(t.a[1]), ux)),
                                          square(DSub(DStored(t.a[2]), uy)))]]
    IN  the({the({IF D.m = MZero
                  THEN [t EXCEPT !.cc = Inf, !.cr2 = Inf]
                  ELSE the({circle(ux, uy) :
                       ux \in {DScale2(DDiv(sum3(DMul(a2, DSub(by, cy)),
                                                 DMul(b2, DSub(cy, ay)),
                                                 DMul(c2, DSub(ay, by))), D),
                                       0 - 1)},
                       uy \in {DScale2(DDiv(sum3(DMul(a2, DSub(cx, bx)),
                                                 DMul(b2, DSub(ax, cx)),
                                                 DMul(c2, DSub(bx, ax))), D),
                                       0 - 1)}}) :
                 D \in {DScale2(sum3(DMul(ax, DSub(by, cy)),
                                     DMul(bx, DSub(cy, ay)),
                                     DMul(cx, DSub(ay, by))), 1)},
                 a2 \in {DAdd(square(ax), square(ay))},
                 b2 \in {DAdd(square(bx), square(by))},
                 c2 \in {DAdd(square(cx), square(cy))}}) :
            ax \in {f(t.a[1])}, ay \in {f(t.a[2])},
            bx \in {f(t.b[1])}, by \in {f(t.b[2])},
            cx \in {f(t.c[1])}, cy \in {f(t.c[2])}})

\* a triangle after a call that needs its circle
CachedDouble(t) ==
    IF t.cr2.kind = "None" THEN compute_circumcircle_double(t) ELSE t

\* in_circumcircle without the early return on an infinite radius: the
\* comparison with math.inf - EPS is true of every point
in_circumcircle_no_return(t, p) ==
    IF t.cr2.kind = "inf" THEN TRUE
    ELSE LET square(d) == DMul(d, d)
         IN  DLess(DAdd(square(DSub(DStored(p[1]), t.cc.x)),
                        square(DSub(DStored(p[2]), t.cc.y))),
                   DSub(t.cr2.v, EpsDouble))

\* in_circumcircle, lines 70-74, in the arithmetic of the floats, for a
\* triangle that has its circle
in_circumcircle_double(t, p) ==
    IF t.cr2.kind = "inf" THEN FALSE
    ELSE LET square(d) == DMul(d, d)
         IN  DLess(DAdd(square(DSub(DStored(p[1]), t.cc.x)),
                        square(DSub(DStored(p[2]), t.cc.y))),
                   DSub(t.cr2.v, EpsDouble))

edges(t) == << <<t.a, t.b>>, <<t.b, t.c>>, <<t.c, t.a>> >>

\* has_supervertex that looks at the first vertex of the triangle only
has_supervertex_first(t, super_verts) ==
    \E s \in 1..Len(super_verts) : pts_equal(t.a, super_verts[s])

has_supervertex(t, super_verts) ==
    \E s \in 1..Len(super_verts) :
        \/ pts_equal(t.a, super_verts[s])
        \/ pts_equal(t.b, super_verts[s])
        \/ pts_equal(t.c, super_verts[s])

\* ---- algorithms/delaunay.py ----------------------------------------------
MinOf(S) == CHOOSE m \in S : \A v \in S : m <= v
MaxOf(S) == CHOOSE m \in S : \A v \in S : m >= v

\* _build_super_triangle without the fallbacks "or 1.0" for a zero extent
build_super_triangle_zero_extent(pts) ==
    LET xs == {pts[k][1] : k \in 1..Len(pts)}
        ys == {pts[k][2] : k \in 1..Len(pts)}
        mn_x == MinOf(xs)
        mx_x == MaxOf(xs)
        mn_y == MinOf(ys)
        mx_y == MaxOf(ys)
        delta == Max(mx_x - mn_x, mx_y - mn_y) * 20
        mid_x == (mn_x + mx_x) \div 2
        mid_y == (mn_y + mx_y) \div 2
        S1 == <<mid_x - 2 * delta, mid_y - delta>>
        S2 == <<mid_x, mid_y + 2 * delta>>
        S3 == <<mid_x + 2 * delta, mid_y - delta>>
    IN  Triangle(S1, S2, S3)

build_super_triangle(pts) ==
    LET xs == {pts[k][1] : k \in 1..Len(pts)}
        ys == {pts[k][2] : k \in 1..Len(pts)}
        mn_x == MinOf(xs)
        mx_x == MaxOf(xs)
        mn_y == MinOf(ys)
        mx_y == MaxOf(ys)
        dx == IF mx_x - mn_x # 0 THEN mx_x - mn_x ELSE Stored(1)
        dy == IF mx_y - mn_y # 0 THEN mx_y - mn_y ELSE Stored(1)
        delta == Max(dx, dy) * 20
        mid_x == (mn_x + mx_x) \div 2
        mid_y == (mn_y + mx_y) \div 2
        S1 == <<mid_x - 2 * delta, mid_y - delta>>
        S2 == <<mid_x, mid_y + 2 * delta>>
        S3 == <<mid_x + 2 * delta, mid_y - delta>>
    IN  Triangle(S1, S2, S3)

Indices(T) == [k \in 1..Len(T) |-> k]

\* find_bad_triangles that stops at the first bad triangle
find_bad_triangles_first(point, T) ==
    LET bad == SelectSeq(Indices(T), LAMBDA k : in_circumcircle(T[k], point))
    IN  IF bad = <<>> THEN bad ELSE <<bad[1]>>

\* the triangles of T (by position: the code compares objects by identity)
\* whose circumcircle contains the point
find_bad_triangles(point, T) ==
    SelectSeq(Indices(T), LAMBDA k : in_circumcircle(T[k], point))

\* find_boundary that keeps the edges two bad triangles share
find_boundary_all(bad, T) ==
    [k \in 1..(3 * Len(bad)) |->
        edges(T[bad[((k - 1) \div 3) + 1]])[((k - 1) % 3) + 1]]

\* the edges of the bad triangles that no other bad triangle has
find_boundary(bad, T) ==
    LET all == [k \in 1..(3 * Len(bad)) |->
                  [tri |-> bad[((k - 1) \div 3) + 1], e |-> ((k - 1) % 3) + 1]]
        is_shared(x) ==
            \E j \in 1..Len(bad) : \E f \in 1..3 :
                /\ bad[j] # x.tri
                /\ edge_equal(edges(T[x.tri])[x.e], edges(T[bad[j]])[f])
        own == SelectSeq(all, LAMBDA x : ~is_shared(x))
    IN  [k \in 1..Len(own) |-> edges(T[own[k].tri])[own[k].e]]

\* every triangle of T with its circle cached: what the calls of
\* in_circumcircle made by _find_bad_triangles leave behind
RECURSIVE CachedAll(_, _)
CachedAll(T, k) ==
    IF k > Len(T) THEN <<>> ELSE <<Cached(T[k])>> \o CachedAll(T, k + 1)

\* one pass of the loop of bowyer_watson (lines 38-46) for one point
InsertPoint(T, point) ==
    LET Tc == CachedAll(T, 1)
        bad == find_bad_triangles(point, Tc)
        boundary == find_boundary(bad, Tc)
        kept == SelectSeq(Indices(Tc),
                          LAMBDA k : \A j \in 1..Len(bad) : bad[j] # k)
    IN  [k \in 1..Len(kept) |-> Tc[kept[k]]]
        \o [k \in 1..Len(boundary) |->
              Triangle(boundary[k][1], boundary[k][2], point)]

\* _find_bad_triangles in the arithmetic of the floats
find_bad_triangles_double(point, T) ==
    SelectSeq(Indices(T), LAMBDA k : in_circumcircle_double(T[k], point))

RECURSIVE CachedAllDouble(_, _)
CachedAllDouble(T, k) ==
    IF k > Len(T) THEN <<>>
    ELSE <<CachedDouble(T[k])>> \o CachedAllDouble(T, k + 1)

\* one pass of the loop of bowyer_watson in the arithmetic of the floats
InsertPointDouble(T, point) ==
    LET added(Tc, bad, boundary) ==
            [k \in 1..Len(SelectSeq(Indices(Tc), LAMBDA i :
                                      \A j \in 1..Len(bad) : bad[j] # i)) |->
                Tc[SelectSeq(Indices(Tc), LAMBDA i :
                                 \A j \in 1..Len(bad) : bad[j] # i)[k]]]
                \o [k \in 1..Len(boundary) |->
                      Triangle(boundary[k][1], boundary[k][2], point)]
        cavity(Tc, bad) == added(Tc, bad, find_boundary(bad, Tc))
        scanned(Tc) == cavity(Tc, find_bad_triangles_double(point, Tc))
    IN  scanned(CachedAllDouble(T, 1))

\* the return statement of bowyer_watson (line 48)
WithoutSuper(T, super_verts) ==
    SelectSeq(T, LAMBDA t : ~has_supervertex(t, super_verts))

SuperVerts(pts) ==
    LET st == build_super_triangle(pts) IN <<st.a, st.b, st.c>>

\* the loop of bowyer_watson from point k on: each pass reads the list that
\* the pass before it left
RECURSIVE InsertAll(_, _, _)
InsertAll(T, pts, k) ==
    IF k > Len(pts) THEN T
    ELSE CHOOSE R \in {InsertAll(U, pts, k + 1) :
                           U \in {InsertPoint(T, pts[k])}} : TRUE

\* bowyer_watson as a function of its argument
bowyer_watson(pts) ==
    IF Len(pts) < 3 THEN <<>>
    ELSE WithoutSuper(InsertAll(<<build_super_triangle(pts)>>, pts, 1),
                      SuperVerts(pts))

\* ---- fixed-point numbers -------------------------------------------------
\* The floats of the clipping and of the Voronoi cells are fixed-point
\* numbers, Fix to one stored unit; a product divided by a number is cut
\* toward zero.

\* <<q, r>> with x * (2 * y + bit) = q * c + r and 0 <= r < c, from the
\* <<q, r>> of x * y that is h; no intermediate value exceeds c
MulDivBit(h, x, bit, c) ==
    LET twice == h[2] >= c - h[2]
        r2 == IF twice THEN h[2] - (c - h[2]) ELSE h[2] + h[2]
        q2 == IF twice THEN 2 * h[1] + 1 ELSE 2 * h[1]
    IN  IF bit = 0 THEN <<q2, r2>>
        ELSE IF r2 >= c - x THEN <<q2 + 1, r2 - (c - x)>>
        ELSE <<q2, r2 + x>>

\* <<q, r>> with x * y = q * c + r and 0 <= r < c, for 0 <= x < c and y >= 0,
\* by the binary digits of y
RECURSIVE MulDivPos(_, _, _)
MulDivPos(x, y, c) ==
    IF y = 0 THEN <<0, 0>>
    ELSE CHOOSE qr \in {MulDivBit(h, x, y % 2, c) :
                            h \in {MulDivPos(x, y \div 2, c)}} : TRUE

\* a * b / c cut toward zero, c # 0
TruncMulDiv(a, b, c) ==
    LET x == Abs(a)
        y == Abs(b)
        z == Abs(c)
        whole == (x \div z) * y + MulDivPos(x % z, y, z)[1]
    IN  IF (a < 0) = ((b < 0) = (c < 0)) THEN 0 - whole ELSE whole

\* x < EPS for a fixed-point x >= 0
FixLtEps(x) == x <= (Stored(1) * Fix - 1) \div EpsInv

\* a point or a rectangle given in stored units, as fixed-point numbers
ToFix(t) == [k \in DOMAIN t |-> t[k] * Fix]

\* ---- algorithms/clipping.py ----------------------------------------------
\* a rectangle is <<xmin, xmax, ymin, ymax>>; the four stages of
\* sutherland_hodgman are numbered 1 (x >= xmin), 2 (x <= xmax),
\* 3 (y >= ymin), 4 (y <= ymax)

\* _intersect_vertical
intersect_vertical(p1, p2, x) ==
    LET dx == p2[1] - p1[1]
    IN  IF FixLtEps(Abs(dx)) THEN <<x, p1[2]>>
        ELSE <<x, p1[2] + TruncMulDiv(x - p1[1], p2[2] - p1[2], dx)>>

\* _intersect_horizontal
intersect_horizontal(p1, p2, y) ==
    LET dy == p2[2] - p1[2]
    IN  IF FixLtEps(Abs(dy)) THEN <<p1[1], y>>
        ELSE <<p1[1] + TruncMulDiv(y - p1[2], p2[1] - p1[1], dy), y>>

\* variant of inside_fn whose last stage reads xmax for ymax
inside_fn_wrong_bound(side, rect, p) ==
    CASE side = 1 -> p[1] >= rect[1]
      [] side = 2 -> p[1] <= rect[2]
      [] side = 3 -> p[2] >= rect[3]
      [] side = 4 -> p[2] <= rect[2]

\* variant of inside_fn with strict comparisons
inside_fn_strict(side, rect, p) ==
    CASE side = 1 -> p[1] > rect[1]
      [] side = 2 -> p[1] < rect[2]
      [] side = 3 -> p[2] > rect[3]
      [] side = 4 -> p[2] < rect[4]

\* the inside_fn that sutherland_hodgman gives to stage side
inside_fn(side, rect, p) ==
    CASE side = 1 -> p[1] >= rect[1]
      [] side = 2 -> p[1] <= rect[2]
      [] side = 3 -> p[2] >= rect[3]
      [] side = 4 -> p[2] <= rect[4]

\* the intersect_fn that sutherland_hodgman gives to stage side
intersect_fn(side, rect, a, b) ==
    CASE side = 1 -> intersect_vertical(a, b, rect[1])
      [] side = 2 -> intersect_vertical(a, b, rect[2])
      [] side = 3 -> intersect_horizontal(a, b, rect[3])
      [] side = 4 -> intersect_horizontal(a, b, rect[4])

\* variant of the loop of _clip_half_plane that emits nothing where the
\* polygon leaves the half-plane
RECURSIVE clip_from_entering_only(_, _, _, _)
clip_from_entering_only(polygon, side, rect, idx) ==
    IF idx > Len(polygon) THEN <<>>
    ELSE LET cur == polygon[idx]
             prev == polygon[IF idx = 1 THEN Len(polygon) ELSE idx - 1]
             out == IF inside_fn(side, rect, cur)
                    THEN (IF ~inside_fn(side, rect, prev)
                          THEN <<intersect_fn(side, rect, prev, cur)>>
                          ELSE <<>>) \o <<cur>>
                    ELSE <<>>
         IN  out \o clip_from_entering_only(polygon, side, rect, idx + 1)

\* the loop of _clip_half_plane, from position idx on
RECURSIVE clip_from(_, _, _, _)
clip_from(polygon, side, rect, idx) ==
    IF idx > Len(polygon) THEN <<>>
    ELSE LET cur == polygon[idx]
             prev == polygon[IF idx = 1 THEN Len(polygon) ELSE idx - 1]
             out == IF inside_fn(side, rect, cur)
                    THEN (IF ~inside_fn(side, rect, prev)
                          THEN <<intersect_fn(side, rect, prev, cur)>>
                          ELSE <<>>) \o <<cur>>
                    ELSE IF inside_fn(side, rect, prev)
                    THEN <<intersect_fn(side, rect, prev, cur)>>
                    ELSE <<>>
         IN  out \o clip_from(polygon, side, rect, idx + 1)

\* _clip_half_plane
clip_half_plane(polygon, side, rect) ==
    IF polygon = <<>> THEN <<>> ELSE clip_from(polygon, side, rect, 1)

\* sutherland_hodgman
sutherland_hodgman(polygon, rect) ==
    clip_half_plane(
        clip_half_plane(
            clip_half_plane(
                clip_half_plane(polygon, 1, rect), 2, rect), 3, rect), 4, rect)

\* ---- algorithms/voronoi.py -----------------------------------------------
\* _build_adjacency: for each point (by position) the triangles (by
\* position) that have it as a vertex, in the order of the triangle list
build_adjacency(pts, T) ==
    [i \in 1..Len(pts) |->
        SelectSeq(Indices(T),
                  LAMBDA k : \/ pts_equal(T[k].a, pts[i])
                             \/ pts_equal(T[k].b, pts[i])
                             \/ pts_equal(T[k].c, pts[i]))]

\* _find_hull_edges: the (edge, triangle) pairs whose edge no other pair has
find_hull_edges(T) ==
    LET all == [k \in 1..(3 * Len(T)) |->
                  [tri |-> ((k - 1) \div 3) + 1, e |-> ((k - 1) % 3) + 1]]
        E(x) == edges(T[x.tri])[x.e]
    IN  SelectSeq(all, LAMBDA x :
            ~\E j \in 1..Len(all) : all[j] # x /\ edge_equal(E(x), E(all[j])))

\* _centroid divides by len(points): ZeroDivisionError on an empty list
centroid_raises(pts) == Len(pts) = 0

RECURSIVE SumOf(_, _, _)
SumOf(pts, c, k) == IF k > Len(pts) THEN 0 ELSE pts[k][c] + SumOf(pts, c, k + 1)

\* _centroid: the fractions sx / n and sy / n
centroid(pts) == [sx |-> SumOf(pts, 1, 1), sy |-> SumOf(pts, 2, 1), n |-> Len(pts)]

\* _build_cell, lines 145-149: the finite circumcentres of the adjacent
\* triangles (the circle of each is computed when it is read)
finite_verts(adj_triangles, T) ==
    LET centres(fin) == [k \in 1..Len(fin) |-> Cached(T[fin[k]]).cc]
    IN  centres(SelectSeq(adj_triangles,
                          LAMBDA k : Cached(T[k]).cc.kind = "finite"))

\* the ordinary integer a number of Limbs digits stands for (below Base^3)
BToInt(a) ==
    LET m == BAbs(a)
        v == m[1] + Base * m[2] + Base * Base * m[3]
    IN  IF BIsNeg(a) THEN 0 - v ELSE v

\* the integer square root of a * b by Newton's iteration from x, a number
\* that is not below it
RECURSIVE SqrtFrom(_, _, _)
SqrtFrom(a, b, x) ==
    IF x = 0 THEN 0
    ELSE LET y == (x + TruncMulDiv(a, b, x)) \div 2
         IN  IF y >= x THEN x ELSE SqrtFrom(a, b, y)

\* a number that is not below sqrt(w * w + h * h)
Hypot(w, h) == Max(Abs(w), Abs(h)) + (Min(Abs(w), Abs(h)) + 1) \div 2

\* Triangle.circumcenter as a pair of floats: (nx / D, ny / D)
circumcenter(cc) ==
    LET d == BToInt(cc.D)
        q(n) == LET v == BToInt(BDiv(BAbs(BScale(Fix, n)), Abs(d)))
                IN  IF BIsNeg(n) = (d < 0) THEN v ELSE 0 - v
    IN  <<q(cc.nx), q(cc.ny)>>

\* which of the two floats of the circumcentre is the negative zero: a zero
\* numerator (a sum, so +0.0) divided by a negative D
circumcenter_neg(cc) ==
    <<BIsZero(cc.nx) /\ BIsNeg(cc.D), BIsZero(cc.ny) /\ BIsNeg(cc.D)>>

\* compute_voronoi, line 34: far = sqrt((xmax-xmin)**2 + (ymax-ymin)**2) * 10
far_of(b) ==
    LET w == b[2] - b[1]
        h == b[4] - b[3]
    IN  SqrtFrom(Fix * Fix, (w * w + h * h) * 100, Hypot(w, h) * 10 * Fix)

\* _outward_normal followed by line 188 of _compute_far_vertices: the point
\* at distance far from c along the unit normal of the edge that points away
\* from the centroid.  d1 > d2 is 4 * (mid - centroid) . n1 > 0.
far_vertex(edge, ctr, far, c) ==
    LET ex == edge[2][1] - edge[1][1]
        ey == edge[2][2] - edge[1][2]
        mx == ctr.n * (edge[1][1] + edge[2][1]) - 2 * ctr.sx
        my == ctr.n * (edge[1][2] + edge[2][2]) - 2 * ctr.sy
        d1_gt_d2 == my * ex - mx * ey > 0
        nx == IF d1_gt_d2 THEN 0 - ey ELSE ey
        ny == IF d1_gt_d2 THEN ex ELSE 0 - ex
        \* sqrt(nx * nx + ny * ny) and the normal, both times 2^20
        length == SqrtFrom(1073741824, (nx * nx + ny * ny) * 1024,
                           Hypot(nx, ny) * 1048576)
    IN  IF nx = 0 /\ ny = 0 THEN c
        ELSE <<c[1] + TruncMulDiv(nx * 1048576, far, length),
               c[2] + TruncMulDiv(ny * 1048576, far, length)>>

\* which float of the far point is the negative zero: the circumcentre's is,
\* and so is the product of the normal's and far (the normal is (-ey, ex) or
\* (ey, -ex), and the opposite of +0.0 is -0.0)
far_vertex_neg(edge, ctr, far, cneg) ==
    LET ex == edge[2][1] - edge[1][1]
        ey == edge[2][2] - edge[1][2]
        mx == ctr.n * (edge[1][1] + edge[2][1]) - 2 * ctr.sx
        my == ctr.n * (edge[1][2] + edge[2][2]) - 2 * ctr.sy
        d1_gt_d2 == my * ex - mx * ey > 0
        nx == IF d1_gt_d2 THEN 0 - ey ELSE ey
        ny == IF d1_gt_d2 THEN ex ELSE 0 - ex
    IN  << /\ cneg[1]
           /\ \/ d1_gt_d2 /\ ey = 0
              \/ far = 0 /\ nx < 0,
           /\ cneg[2]
           /\ \/ ~d1_gt_d2 /\ ex = 0
              \/ far = 0 /\ ny < 0 >>

\* _compute_far_vertices: one far point for each hull edge that ends at the
\* site and whose triangle has a finite circumcentre
compute_far_vertices(site, hull_edges, ctr, far, T) ==
    LET far_point(edge, cc) ==
            [v |-> far_vertex(edge, ctr, far, circumcenter(cc)),
             neg |-> far_vertex_neg(edge, ctr, far, circumcenter_neg(cc))]
        far_verts(own) ==
            [k \in 1..Len(own) |->
                far_point(edges(T[own[k].tri])[own[k].e],
                          Cached(T[own[k].tri]).cc)]
    IN  far_verts(SelectSeq(hull_edges, LAMBDA x :
            /\ \/ pts_equal(edges(T[x.tri])[x.e][1], site)
               \/ pts_equal(edges(T[x.tri])[x.e][2], site)
            /\ Cached(T[x.tri]).cc.kind = "finite"))

\* where math.atan2(y, x) lies for y = v - site: at -pi, below 0, at 0,
\* between 0 and pi, at pi.  A difference is -0.0 when v is -0.0 and the
\* site's coordinate is 0.
AngleHalf(u, neg) ==
    IF u[2] < 0 THEN 0
    ELSE IF u[2] > 0 THEN 2
    ELSE IF u[1] > 0 \/ (u[1] = 0 /\ ~neg[1]) THEN 1
    ELSE IF neg[2] THEN 0 - 1
    ELSE 3

\* the comparison of a sort by decreasing angle
AngleMore(u, uneg, v, vneg) ==
    \/ AngleHalf(v, vneg) < AngleHalf(u, uneg)
    \/ /\ AngleHalf(u, uneg) = AngleHalf(v, vneg)
       /\ AngleHalf(u, uneg) \in {0, 2}
       /\ BLess(BMul(Big(v[2]), Big(u[1])), BMul(Big(v[1]), Big(u[2])))

\* math.atan2(u[2], u[1]) < math.atan2(v[2], v[1])
AngleLess(u, uneg, v, vneg) ==
    \/ AngleHalf(u, uneg) < AngleHalf(v, vneg)
    \/ /\ AngleHalf(u, uneg) = AngleHalf(v, vneg)
       /\ AngleHalf(u, uneg) \in {0, 2}
       /\ BLess(BMul(Big(u[2]), Big(v[1])), BMul(Big(u[1]), Big(v[2])))

\* list.sort(key = angle around the site): stable, by insertion
RECURSIVE sort_by_angle(_, _, _)
sort_by_angle(verts, site, k) ==
    IF k = 0 THEN <<>>
    ELSE LET done == sort_by_angle(verts, site, k - 1)
             rel(x) == <<x.v[1] - site[1], x.v[2] - site[2]>>
             neg(x) == <<x.neg[1] /\ site[1] = 0, x.neg[2] /\ site[2] = 0>>
             later == {j \in 1..Len(done) :
                          AngleLess(rel(verts[k]), neg(verts[k]),
                                    rel(done[j]), neg(done[j]))}
             at == IF later = {} THEN Len(done) + 1 ELSE MinOf(later)
         IN  SubSeq(done, 1, at - 1) \o <<verts[k]>>
                 \o SubSeq(done, at, Len(done))

\* _build_cell that returns the sorted vertices without clipping them
build_cell_unclipped(i, pts, T, adj_triangles, hull_edges, ctr, far, b) ==
    LET vertex(cc) == [v |-> circumcenter(cc), neg |-> circumcenter_neg(cc)]
        checked(clipped) == IF Len(clipped) >= 3 THEN clipped ELSE None
        clip(sorted) ==
            checked([k \in 1..Len(sorted) |-> sorted[k].v])
        sort(all_verts) ==
            clip(sort_by_angle(all_verts, ToFix(pts[i]), Len(all_verts)))
        cell(fin) ==
            IF fin = <<>> THEN None
            ELSE sort([k \in 1..Len(fin) |-> vertex(fin[k])]
                      \o compute_far_vertices(pts[i], hull_edges, ctr, far, T))
    IN  cell(finite_verts(adj_triangles, T))

\* _build_cell that returns the clipped polygon however few vertices it has
build_cell_any(i, pts, T, adj_triangles, hull_edges, ctr, far, b) ==
    LET vertex(cc) == [v |-> circumcenter(cc), neg |-> circumcenter_neg(cc)]
        checked(clipped) == clipped
        clip(sorted) ==
            checked(sutherland_hodgman([k \in 1..Len(sorted) |-> sorted[k].v],
                                       ToFix(b)))
        sort(all_verts) ==
            clip(sort_by_angle(all_verts, ToFix(pts[i]), Len(all_verts)))
        cell(fin) ==
            IF fin = <<>> THEN None
            ELSE sort([k \in 1..Len(fin) |-> vertex(fin[k])]
                      \o compute_far_vertices(pts[i], hull_edges, ctr, far, T))
    IN  cell(finite_verts(adj_triangles, T))

\* _build_cell: the clipped polygon of the site at position i, or None
build_cell(i, pts, T, adj_triangles, hull_edges, ctr, far, b) ==
    LET vertex(cc) == [v |-> circumcenter(cc), neg |-> circumcenter_neg(cc)]
        checked(clipped) == IF Len(clipped) >= 3 THEN clipped ELSE None
        clip(sorted) ==
            checked(sutherland_hodgman([k \in 1..Len(sorted) |-> sorted[k].v],
                                       ToFix(b)))
        sort(all_verts) ==
            clip(sort_by_angle(all_verts, ToFix(pts[i]), Len(all_verts)))
        cell(fin) ==
            IF fin = <<>> THEN None
            ELSE sort([k \in 1..Len(fin) |-> vertex(fin[k])]
                      \o compute_far_vertices(pts[i], hull_edges, ctr, far, T))
    IN  cell(finite_verts(adj_triangles, T))

\* ---- CHATGPT/app/domain: the half-plane builder ---------------------------
\* BBox.rect: the four corners, counter-clockwise from (xmin, ymin)
bbox_rect(b) ==
    << <<b[1], b[3]>>, <<b[2], b[3]>>, <<b[2], b[4]>>, <<b[1], b[4]>> >>

\* c - a * p.x - b * p.y of _clip_polygon_by_halfplane for the half-plane of
\* the points nearer to site than to q (site and q in stored units, p in
\* fixed-point units).  With m the middle of site and q it
\* is a * (m.x - p.x) + b * (m.y - p.y), which stays within 32 bits.
halfplane_slack(site, q, p) ==
    LET a == q[1] - site[1]
        b == q[2] - site[2]
        mx == ((q[1] + site[1]) * Fix) \div 2
        my == ((q[2] + site[2]) * Fix) \div 2
    IN  a * (mx - p[1]) + b * (my - p[2])

\* inside of _clip_polygon_by_halfplane: a * p.x + b * p.y <= c + EPS
halfplane_inside(site, q, p) == halfplane_slack(site, q, p) >= 0

\* intersection of _clip_polygon_by_halfplane
halfplane_intersection(site, q, s, e) ==
    LET dx == e[1] - s[1]
        dy == e[2] - s[2]
        denom == (q[1] - site[1]) * dx + (q[2] - site[2]) * dy
        num == halfplane_slack(site, q, s)
    IN  IF denom = 0 THEN e
        ELSE <<s[1] + TruncMulDiv(num, dx, denom),
               s[2] + TruncMulDiv(num, dy, denom)>>

\* the loop of _clip_polygon_by_halfplane from position k on
RECURSIVE halfplane_from(_, _, _, _)
halfplane_from(g, site, q, k) ==
    IF k > Len(g) THEN <<>>
    ELSE LET e == g[k]
             s == g[IF k = 1 THEN Len(g) ELSE k - 1]
             out == IF halfplane_inside(site, q, e)
                    THEN (IF ~halfplane_inside(site, q, s)
                          THEN <<halfplane_intersection(site, q, s, e)>>
                          ELSE <<>>) \o <<e>>
                    ELSE IF halfplane_inside(site, q, s)
                    THEN <<halfplane_intersection(site, q, s, e)>>
                    ELSE <<>>
         IN  out \o halfplane_from(g, site, q, k + 1)

clip_polygon_by_halfplane(g, site, q) ==
    IF g = <<>> THEN <<>> ELSE halfplane_from(g, site, q, 1)

\* clip_polygon_to_bbox: the four stages of clipping.py, lines 55-112.  In
\* fixed-point units the slack EPS of its tests is below one unit, and its
\* stages are those of sutherland_hodgman.
clip_polygon_to_bbox(g, b) == sutherland_hodgman(g, b)

\* the loop of _cell_from_neighbors over the neighbours in the order nbrs
RECURSIVE clip_by_neighbors(_, _, _, _)
clip_by_neighbors(g, site, nbrs, k) ==
    IF k > Len(nbrs) \/ g = <<>> THEN g
    ELSE clip_by_neighbors(clip_polygon_by_halfplane(g, site, nbrs[k]),
                           site, nbrs, k + 1)

\* _cell_from_neighbors, lines 68-72: sorted by angle around the mean of the
\* vertices (each vertex times n, less the sum, is n times its offset)
sort_around_mean(g) ==
    LET n == Len(g)
        sum == <<SumOf(g, 1, 1), SumOf(g, 2, 1)>>
        scaled == [k \in 1..n |->
                      [v |-> <<n * g[k][1], n * g[k][2]>>,
                       neg |-> <<FALSE, FALSE>>,
                       p |-> g[k]]]
        sorted == sort_by_angle(scaled, sum, n)
    IN  [k \in 1..n |-> sorted[k].p]

\* _cell_from_neighbors for the neighbours taken in the order nbrs
cell_from_neighbors(site, nbrs, b) ==
    LET cut == clip_by_neighbors(bbox_rect(ToFix(b)), site, nbrs, 1)
        g == clip_polygon_to_bbox(cut, ToFix(b))
    IN  IF cut = <<>> THEN <<>>
        ELSE IF Len(g) >= 3 THEN sort_around_mean(g) ELSE g

\* delaunay.py, lines 71-83: the points that share a triangle with point i
neighbors(pts, T, i) ==
    {j \in 1..Len(pts) :
        /\ pts[j] # pts[i]
        /\ \E t \in 1..Len(T) :
               /\ pts[i] \in {T[t].a, T[t].b, T[t].c}
               /\ pts[j] \in {T[t].a, T[t].b, T[t].c}}

\* the orders in which a set can be iterated
Orders(S) ==
    {f \in [1..Cardinality(S) -> S] :
        \A j, k \in 1..Cardinality(S) : j # k => f[j] # f[k]}

\* ---- inputs --------------------------------------------------------------
\* the grid points, stretched by s along x
Grid(s) == {<<Stored(s * x), Stored(y)>> : x \in 0..GridMax, y \in 0..GridMax}

\* the lists of n distinct points of G
Lists(G, n) ==
    {f \in [1..n -> G] : \A j, k \in 1..n : j # k => f[j] # f[k]}

\* up to MaxPts points of the unit grid, or up to MaxWide points of the
\* stretched one
Inputs ==
    UNION ({Lists(Grid(1), n) : n \in 0..MaxPts}
           \cup {Lists(Grid(Stretch), n) : n \in 0..MaxWide})

\* ---- state ---------------------------------------------------------------
VARIABLES
    points,         \* the argument of bowyer_watson and compute_voronoi
    pc,             \* where the computation stands
    idx,            \* position of the loop over the points
    triangulation,  \* the working list of bowyer_watson
    super_verts,    \* the three vertices of the super-triangle
    triangles,      \* the list bowyer_watson returns
    bbox,           \* the rectangle given to compute_voronoi
    cells,          \* the mapping compute_voronoi returns
    hcells,         \* the mapping build_voronoi_from_delaunay returns
    polygon,        \* the polygon given to sutherland_hodgman
    rect,           \* the rectangle given to sutherland_hodgman
    poly,           \* the local poly of sutherland_hodgman
    stage,          \* the stages of sutherland_hodgman that are done
    tri,            \* a Triangle object that is called on its own
    calls,          \* the number of calls made on it
    answer,         \* what the last of these calls returned
    adjacency,      \* the neighbors that the CHATGPT bowyer_watson returns
    points_in       \* the argument of the CHATGPT bowyer_watson

\* the variables of a call of sutherland_hodgman on its own
clipper == <<polygon, rect, poly, stage>>

\* the variables of the calls on one Triangle and of the CHATGPT bowyer_watson
extra == <<tri, calls, answer, adjacency, points_in>>

vars == <<points, pc, idx, triangulation, super_verts, triangles, bbox, cells,
          hcells, clipper, extra>>

Init ==
    /\ points \in Inputs
    /\ pc = "call"
    /\ idx = 0
    /\ triangulation = <<>>
    /\ super_verts = <<>>
    /\ triangles = <<>>
    /\ bbox = <<>>
    /\ cells = <<>>
    /\ hcells = <<>>
    /\ polygon = <<>>
    /\ rect = <<>>
    /\ poly = <<>>
    /\ stage = 0
    /\ tri = None
    /\ calls = 0
    /\ answer = None
    /\ adjacency = <<>>
    /\ points_in = <<>>

\* variant of the entry that rejects points that all lie on one line
Enter_rejecting ==
    /\ pc = "call"
    /\ IF Len(points) < 3
       THEN /\ pc' = "returned"
            /\ triangles' = <<>>
            /\ UNCHANGED <<idx, triangulation, super_verts>>
       ELSE IF \A i, j, k \in 1..Len(points) :
                   (points[j][1] - points[i][1]) * (points[k][2] - points[i][2])
                       = (points[j][2] - points[i][2]) * (points[k][1] - points[i][1])
       THEN /\ pc' = "raised"
            /\ UNCHANGED <<idx, triangulation, super_verts, triangles>>
       ELSE /\ pc' = "loop"
            /\ triangulation' = <<build_super_triangle(points)>>
            /\ super_verts' = SuperVerts(points)
            /\ idx' = 1
            /\ UNCHANGED triangles
    /\ UNCHANGED <<points, bbox, cells>>
    /\ UNCHANGED <<hcells, clipper, extra>>

\* bowyer_watson, lines 31-36
Enter ==
    /\ pc = "call"
    /\ IF Len(points) < 3
       THEN /\ pc' = "returned"
            /\ triangles' = <<>>
            /\ UNCHANGED <<idx, triangulation, super_verts>>
       ELSE /\ pc' = "loop"
            /\ triangulation' = <<build_super_triangle(points)>>
            /\ super_verts' = SuperVerts(points)
            /\ idx' = 1
            /\ UNCHANGED triangles
    /\ UNCHANGED <<points, bbox, cells>>
    /\ UNCHANGED <<hcells, clipper, extra>>

\* bowyer_watson, lines 38-46: one point
Insert ==
    /\ pc = "loop"
    /\ idx <= Len(points)
    /\ triangulation' = InsertPoint(triangulation, points[idx])
    /\ idx' = idx + 1
    /\ UNCHANGED <<points, pc, super_verts, triangles, bbox, cells>>
    /\ UNCHANGED <<hcells, clipper, extra>>

\* bowyer_watson, line 48
Return ==
    /\ pc = "loop"
    /\ idx > Len(points)
    /\ triangles' = WithoutSuper(triangulation, super_verts)
    /\ pc' = "returned"
    /\ UNCHANGED <<points, idx, triangulation, super_verts, bbox, cells>>
    /\ UNCHANGED <<hcells, clipper, extra>>

Next == Enter \/ Insert \/ Return

Spec == Init /\ [][Next]_vars

\* a step of a call of bowyer_watson that is under way, seen on pc and idx:
\* Enter, Insert and Return each change one of them in this way
Running ==
    /\ pc \in {"call", "loop"}
    /\ pc' \in {"loop", "returned"}
    /\ idx' \in {idx, idx + 1}

\* the loop of bowyer_watson is a for loop over a finite list and the calls
\* are synchronous: a call that is under way goes on
FairSpec == Spec /\ WF_<<pc, idx>>(Running)

\* ---- a call of compute_voronoi, site by site ------------------------------
\* the rectangle of the extent of the points, widened by m on every side
Extent(pts, m) ==
    LET xs == {pts[k][1] : k \in 1..Len(pts)}
        ys == {pts[k][2] : k \in 1..Len(pts)}
    IN  <<MinOf(xs) - m, MaxOf(xs) + m, MinOf(ys) - m, MaxOf(ys) + m>>

\* the rectangles a point list is clipped to: its extent with a margin, its
\* extent, a rectangle inside the grid and one away from it
VorBoxes(pts) ==
    (IF pts = <<>> THEN {} ELSE {Extent(pts, Stored(1)), Extent(pts, 0)})
        \cup { <<1, Stored(GridMax) - 1, 1, Stored(GridMax) - 1>>,
               <<Stored(GridMax + 1), Stored(GridMax + 2),
                 Stored(GridMax + 1), Stored(GridMax + 2)>> }

\* point lists in increasing order: up to MaxPts points of the unit grid, or
\* MaxWide points of the stretched one
VorInputs ==
    {f \in Inputs : \A k \in 1..(Len(f) - 1) :
        \/ f[k][1] < f[k + 1][1]
        \/ f[k][1] = f[k + 1][1] /\ f[k][2] < f[k + 1][2]}

\* the call compute_voronoi(points, bowyer_watson(points), bbox)
VorInit ==
    /\ points \in VorInputs
    /\ pc = "compute_voronoi"
    /\ idx = 0
    /\ triangulation = <<>>
    /\ super_verts = <<>>
    /\ triangles = bowyer_watson(points)
    /\ bbox \in VorBoxes(points)
    /\ cells = <<>>
    /\ hcells = <<>>
    /\ polygon = <<>>
    /\ rect = <<>>
    /\ poly = <<>>
    /\ stage = 0
    /\ tri = None
    /\ calls = 0
    /\ answer = None
    /\ adjacency = <<>>
    /\ points_in = <<>>

\* compute_voronoi, lines 33-40: _centroid raises on an empty list
VorEnter ==
    /\ pc = "compute_voronoi"
    /\ IF centroid_raises(points)
       THEN pc' = "raised" /\ UNCHANGED idx
       ELSE pc' = "cells" /\ idx' = 1
    /\ UNCHANGED <<points, triangulation, super_verts, triangles, bbox, cells>>
    /\ UNCHANGED <<hcells, clipper, extra>>

\* compute_voronoi, lines 42-48: the cell of one site
VorCell ==
    /\ pc = "cells"
    /\ idx <= Len(points)
    /\ LET with(cell) == IF cell = None THEN cells
                          ELSE [j \in DOMAIN cells \cup {idx} |->
                                   IF j = idx THEN cell ELSE cells[j]]
       IN  cells' = with(build_cell(idx, points, triangles,
                                    build_adjacency(points, triangles)[idx],
                                    find_hull_edges(triangles),
                                    centroid(points), far_of(bbox), bbox))
    /\ idx' = idx + 1
    /\ UNCHANGED <<points, pc, triangulation, super_verts, triangles, bbox>>
    /\ UNCHANGED <<hcells, clipper, extra>>

\* compute_voronoi, line 50
VorReturn ==
    /\ pc = "cells"
    /\ idx > Len(points)
    /\ pc' = "voronoi"
    /\ UNCHANGED <<points, idx, triangulation, super_verts, triangles, bbox,
                   cells>>
    /\ UNCHANGED <<hcells, clipper, extra>>

VorNext == VorEnter \/ VorCell \/ VorReturn

VorSpec == VorInit /\ [][VorNext]_vars

\* ---- the two builders on the same input -----------------------------------
\* build_voronoi_from_delaunay, lines 81-88, called with the points, the
\* triangles and the rectangle that compute_voronoi was called with
HalfEnter ==
    /\ pc = "voronoi"
    /\ pc' = "halfplanes"
    /\ idx' = 1
    /\ UNCHANGED <<points, triangulation, super_verts, triangles, bbox, cells,
                   hcells, clipper, extra>>

\* build_voronoi_from_delaunay, lines 89-90: the entry of one point.  The
\* neighbours are a set, iterated in an order the program does not choose.
HalfCell ==
    /\ pc = "halfplanes"
    /\ idx <= Len(points)
    /\ \E order \in Orders(neighbors(points, triangles, idx)) :
           hcells' = [j \in DOMAIN hcells \cup {idx} |->
                        IF j = idx
                        THEN cell_from_neighbors(points[idx],
                                 [k \in DOMAIN order |-> points[order[k]]],
                                 bbox)
                        ELSE hcells[j]]
    /\ idx' = idx + 1
    /\ UNCHANGED <<points, pc, triangulation, super_verts, triangles, bbox,
                   cells, clipper, extra>>

\* build_voronoi_from_delaunay, line 92
HalfReturn ==
    /\ pc = "halfplanes"
    /\ idx > Len(points)
    /\ pc' = "diagram"
    /\ UNCHANGED <<points, idx, triangulation, super_verts, triangles, bbox,
                   cells, hcells, clipper, extra>>

HalfNext == VorEnter \/ VorCell \/ VorReturn \/ HalfEnter \/ HalfCell \/ HalfReturn

HalfSpec == VorInit /\ [][HalfNext]_vars

\* ---- a call of sutherland_hodgman on its own ------------------------------
\* the polygons: up to MaxPoly points of the unit grid, in any order, repeated
\* or not
Polygons == UNION {[1..n -> Grid(1)] : n \in 0..MaxPoly}

\* the rectangles: the extent of the grid, a rectangle inside it, one beside
\* it, a segment across it and a rectangle away from it
ClipRects ==
    { <<0, Stored(GridMax), 0, Stored(GridMax)>>,
      <<1, Stored(GridMax) - 1, 1, Stored(GridMax) - 1>>,
      <<Stored(GridMax), Stored(GridMax + 1), 1, Stored(GridMax) - 1>>,
      <<Stored(1), Stored(1), 0, Stored(GridMax)>>,
      <<Stored(GridMax + 1), Stored(GridMax + 2),
        Stored(GridMax + 1), Stored(GridMax + 2)>> }

\* sutherland_hodgman, line 71
ClipInit ==
    /\ points = <<>>
    /\ pc = "idle"
    /\ idx = 0
    /\ triangulation = <<>>
    /\ super_verts = <<>>
    /\ triangles = <<>>
    /\ bbox = <<>>
    /\ cells = <<>>
    /\ hcells = <<>>
    /\ \E g \in Polygons : polygon = [k \in DOMAIN g |-> ToFix(g[k])]
    /\ \E r \in ClipRects : rect = ToFix(r)
    /\ poly = polygon
    /\ stage = 0
    /\ tri = None
    /\ calls = 0
    /\ answer = None
    /\ adjacency = <<>>
    /\ points_in = <<>>

\* stage side of sutherland_hodgman
ClipStage(side) ==
    /\ pc = "idle"
    /\ stage = side - 1
    /\ poly' = clip_half_plane(poly, side, rect)
    /\ stage' = side
    /\ UNCHANGED <<points, pc, idx, triangulation, super_verts, triangles,
                   bbox, cells, hcells, polygon, rect, extra>>

\* sutherland_hodgman, lines 73-75
ClipLeft == ClipStage(1)
\* sutherland_hodgman, lines 76-78
ClipRight == ClipStage(2)
\* sutherland_hodgman, lines 79-81
ClipBottom == ClipStage(3)
\* sutherland_hodgman, lines 82-84
ClipTop == ClipStage(4)

ClipNext == ClipLeft \/ ClipRight \/ ClipBottom \/ ClipTop

ClipSpec == ClipInit /\ [][ClipNext]_vars

\* ---- CHATGPT/app/domain/delaunay.py ----------------------------------------
\* a Triangle of CHATGPT/app/domain/geometry.py: three points, nothing cached
GptTriangle(a, b, c) == [a |-> a, b |-> b, c |-> c]

\* _super_triangle, lines 15-34 (d <= EPS is d = 0 for coordinates of the grid)
super_triangle(pts) ==
    LET xs == {pts[k][1] : k \in 1..Len(pts)}
        ys == {pts[k][2] : k \in 1..Len(pts)}
        minx == MinOf(xs)
        maxx == MaxOf(xs)
        miny == MinOf(ys)
        maxy == MaxOf(ys)
        span == Max(maxx - minx, maxy - miny)
        d == IF span <= 0 THEN Stored(1) ELSE span
        midx == (minx + maxx) \div 2
        midy == (miny + maxy) \div 2
    IN  GptTriangle(<<midx - 20 * d, midy - 20 * d>>,
                    <<midx, midy + 20 * d>>,
                    <<midx + 20 * d, midy - 20 * d>>)

\* unique_points, geometry.py lines 96-102: isclose with the tolerances 1e-9
\* (relative) and 1e-12 (absolute) on coordinates of the grid is equality
RECURSIVE unique_points(_, _)
unique_points(pts, k) ==
    IF k = 0 THEN <<>>
    ELSE LET out == unique_points(pts, k - 1)
         IN  IF \E j \in 1..Len(out) : out[j] = pts[k]
             THEN out ELSE Append(out, pts[k])

\* orientation, geometry.py lines 47-49
orientation(a, b, c) ==
    (b[1] - a[1]) * (c[2] - a[2]) - (b[2] - a[2]) * (c[1] - a[1])

\* in_circumcircle(t, p) of geometry.py, lines 74-93: the determinant is an
\* integer, so det > EPS is det > 0 and det < -EPS is det < 0
gpt_in_circumcircle(t, p) ==
    LET ax == t.a[1] - p[1]
        ay == t.a[2] - p[2]
        bx == t.b[1] - p[1]
        by == t.b[2] - p[2]
        cx == t.c[1] - p[1]
        cy == t.c[2] - p[2]
        det == BAdd(BSub(BScale(ax * ax + ay * ay, Big(bx * cy - by * cx)),
                         BScale(bx * bx + by * by, Big(ax * cy - ay * cx))),
                    BScale(cx * cx + cy * cy, Big(ax * by - ay * bx)))
        ori == orientation(t.a, t.b, t.c)
    IN  IF ori = 0 THEN FALSE
        ELSE IF ori > 0 THEN ~BIsNeg(det) /\ ~BIsZero(det)
        ELSE BIsNeg(det)

\* Edge.normalized, geometry.py lines 24-31
normalized(e) ==
    IF \/ e[1][1] < e[2][1]
       \/ (e[1][1] = e[2][1] /\ e[1][2] <= e[2][2])
    THEN e ELSE <<e[2], e[1]>>

\* lines 49-53: the normalized edges of the bad triangles, one after the other
gpt_edges(bad) ==
    [k \in 1..(3 * Len(bad)) |->
        normalized(edges(bad[((k - 1) \div 3) + 1])[((k - 1) % 3) + 1])]

\* lines 49-55: the keys of edge_count that are counted once, in the order in
\* which the dictionary got them
boundary_edges(bad) ==
    LET all == gpt_edges(bad)
        once == SelectSeq([k \in 1..Len(all) |-> k], LAMBDA k :
                    \A j \in 1..Len(all) : all[j] = all[k] => j = k)
    IN  [k \in 1..Len(once) |-> all[once[k]]]

\* lines 46-65: one pass of the loop over the points
gpt_insert(T, p) ==
    LET bad == SelectSeq(T, LAMBDA t : gpt_in_circumcircle(t, p))
        kept == SelectSeq(T, LAMBDA t : \A k \in 1..Len(bad) : bad[k] # t)
        used == SelectSeq(boundary_edges(bad),
                          LAMBDA e : orientation(e[1], e[2], p) # 0)
    IN  kept \o [k \in 1..Len(used) |-> GptTriangle(used[k][1], used[k][2], p)]

\* lines 68-69: the triangles without a vertex of the super-triangle
gpt_without_super(T, st) ==
    SelectSeq(T, LAMBDA t : {t.a, t.b, t.c} \cap {st[1], st[2], st[3]} = {})

\* lines 73-83 with one direction of each pair only
gpt_add_one_way(nb, t) ==
    LET pairs == {<<t.a, t.b>>, <<t.b, t.c>>, <<t.c, t.a>>}
    IN  [p \in DOMAIN nb |->
            nb[p] \cup {e[2] : e \in {e \in pairs :
                                        e[1] = p /\ e[2] \in DOMAIN nb}}]

\* lines 73-83: the three pairs of one triangle added to the mapping
gpt_add(nb, t) ==
    LET pairs == {<<t.a, t.b>>, <<t.b, t.a>>, <<t.b, t.c>>, <<t.c, t.b>>,
                  <<t.c, t.a>>, <<t.a, t.c>>}
    IN  [p \in DOMAIN nb |->
            nb[p] \cup {e[2] : e \in {e \in pairs :
                                        e[1] = p /\ e[2] \in DOMAIN nb}}]

\* lines 72-83: the mapping after the first k triangles
RECURSIVE gpt_neighbors(_, _, _)
gpt_neighbors(pts, T, k) ==
    IF k = 0 THEN [p \in {pts[j] : j \in 1..Len(pts)} |-> {}]
    ELSE gpt_add(gpt_neighbors(pts, T, k - 1), T[k])

\* ---- the CHATGPT bowyer_watson ----------------------------------------------
\* the arguments: lists of distinct points of the unit grid, and such lists
\* with one of their points once more at the end
GptInputs ==
    LET distinct == UNION {Lists(Grid(1), n) : n \in 0..MaxPts}
    IN  distinct \cup UNION {{Append(f, f[k]) : k \in 1..Len(f)} :
                                 f \in {g \in distinct : Len(g) < MaxPts}}

GptInit ==
    /\ points_in \in GptInputs
    /\ points = <<>>
    /\ pc = "call_gpt"
    /\ idx = 0
    /\ triangulation = <<>>
    /\ super_verts = <<>>
    /\ triangles = <<>>
    /\ bbox = <<>>
    /\ cells = <<>>
    /\ hcells = <<>>
    /\ polygon = <<>>
    /\ rect = <<>>
    /\ poly = <<>>
    /\ stage = 0
    /\ tri = None
    /\ calls = 0
    /\ answer = None
    /\ adjacency = <<>>

\* lines 38-43
GptEnter ==
    /\ pc = "call_gpt"
    /\ points' = unique_points(points_in, Len(points_in))
    /\ IF Len(points') < 3
       THEN /\ pc' = "returned_gpt"
            /\ triangles' = <<>>
            /\ adjacency' = [p \in {points'[j] : j \in 1..Len(points')} |-> {}]
            /\ UNCHANGED <<idx, triangulation, super_verts>>
       ELSE /\ pc' = "loop_gpt"
            /\ triangulation' = <<super_triangle(points')>>
            /\ super_verts' = <<triangulation'[1].a, triangulation'[1].b,
                                triangulation'[1].c>>
            /\ idx' = 1
            /\ UNCHANGED <<triangles, adjacency>>
    /\ UNCHANGED <<bbox, cells, hcells, clipper, tri, calls, answer, points_in>>

\* lines 45-65: one point
GptInsert ==
    /\ pc = "loop_gpt"
    /\ idx <= Len(points)
    /\ triangulation' = gpt_insert(triangulation, points[idx])
    /\ idx' = idx + 1
    /\ UNCHANGED <<points, pc, super_verts, triangles, bbox, cells, hcells,
                   clipper, extra>>

\* lines 67-85
GptReturn ==
    /\ pc = "loop_gpt"
    /\ idx > Len(points)
    /\ triangles' = gpt_without_super(triangulation, super_verts)
    /\ adjacency' = gpt_neighbors(points, triangles', Len(triangles'))
    /\ pc' = "returned_gpt"
    /\ UNCHANGED <<points, idx, triangulation, super_verts, bbox, cells, hcells,
                   clipper, tri, calls, answer, points_in>>

GptNext == GptEnter \/ GptInsert \/ GptReturn

GptSpec == GptInit /\ [][GptNext]_vars

\* ---- the super-triangle on its own ------------------------------------------
\* the lists that are not empty: those of distinct points, and the lists that
\* repeat one point
SuperInputs ==
    (Inputs \ {<<>>})
        \cup {[k \in 1..n |-> p] : p \in Grid(1), n \in 2..MaxPts}

SuperInit ==
    /\ points \in SuperInputs
    /\ pc = "call_super"
    /\ idx = 0
    /\ triangulation = <<>>
    /\ super_verts = <<>>
    /\ triangles = <<>>
    /\ bbox = <<>>
    /\ cells = <<>>
    /\ hcells = <<>>
    /\ polygon = <<>>
    /\ rect = <<>>
    /\ poly = <<>>
    /\ stage = 0
    /\ tri = None
    /\ calls = 0
    /\ answer = None
    /\ adjacency = <<>>
    /\ points_in = <<>>

\* a call of _build_super_triangle
SuperBuild ==
    /\ pc = "call_super"
    /\ triangulation' = <<build_super_triangle(points)>>
    /\ super_verts' = SuperVerts(points)
    /\ pc' = "super"
    /\ UNCHANGED <<points, idx, triangles, bbox, cells, hcells, clipper, extra>>

\* a call of the CHATGPT _super_triangle
SuperBuildGpt ==
    /\ pc = "call_super"
    /\ triangulation' = <<super_triangle(points)>>
    /\ super_verts' = <<triangulation'[1].a, triangulation'[1].b,
                        triangulation'[1].c>>
    /\ pc' = "super_gpt"
    /\ UNCHANGED <<points, idx, triangles, bbox, cells, hcells, clipper, extra>>

SuperNext == SuperBuild \/ SuperBuildGpt

SuperSpec == SuperInit /\ [][SuperNext]_vars

\* ---- calls on one Triangle ---------------------------------------------------
\* the Triangle objects, freshly constructed: any three points of the unit
\* grid, also equal ones and ones on a line, and any three points of the wide
\* grid that are not on a line, the first of them the least one
TriInputs ==
    {Triangle(a, b, c) : a, b, c \in Grid(1)}
        \cup {t \in {Triangle(a, b, c) : a, b, c \in Grid(Wide)} :
                 /\ (t.b[1] - t.a[1]) * (t.c[2] - t.a[2])
                        # (t.b[2] - t.a[2]) * (t.c[1] - t.a[1])
                 /\ \A v \in {t.b, t.c} :
                        t.a[1] < v[1] \/ (t.a[1] = v[1] /\ t.a[2] < v[2])}

\* the points that in_circumcircle is asked about: those of the grid of the
\* triangle
TriPoints(t) ==
    IF {t.a, t.b, t.c} \subseteq Grid(1) THEN Grid(1) ELSE Grid(Wide)

\* the points of a list without the repeated ones, in the order of the list
RECURSIVE Distinct(_, _)
Distinct(seq, k) ==
    IF k = 0 THEN <<>>
    ELSE LET before == Distinct(seq, k - 1)
         IN  IF \E j \in 1..Len(before) : before[j] = seq[k]
             THEN before ELSE Append(before, seq[k])

\* compute_voronoi as a function of its arguments, for a list of points that
\* is not empty
compute_voronoi(pts, T, b) ==
    LET with(acc, i, cell) ==
            IF cell = None THEN acc
            ELSE [j \in DOMAIN acc \cup {i} |-> IF j = i THEN cell ELSE acc[j]]
        RECURSIVE upto(_)
        upto(n) ==
            IF n = 0 THEN <<>>
            ELSE with(upto(n - 1), n,
                      build_cell(n, pts, T, build_adjacency(pts, T)[n],
                                 find_hull_edges(T), centroid(pts),
                                 far_of(b), b))
    IN  upto(Len(pts))

\* the triangles given to compute_voronoi together with t: none, or one that
\* shares the edge (a, b) of t and has its third vertex off the line of a, b
Apexes == {<<0, 0>>, <<Stored(GridMax), Stored(1)>>}
Companions(t) ==
    {<<>>} \cup {<<Triangle(t.a, t.b, q)>> : q \in {q \in Apexes :
        (t.b[1] - t.a[1]) * (q[2] - t.a[2]) # (t.b[2] - t.a[2]) * (q[1] - t.a[1])}}

\* Triangle.__init__
TriInit ==
    /\ points = <<>>
    /\ pc = "triangle"
    /\ idx = 0
    /\ triangulation = <<>>
    /\ super_verts = <<>>
    /\ triangles = <<>>
    /\ bbox = <<>>
    /\ cells = <<>>
    /\ hcells = <<>>
    /\ polygon = <<>>
    /\ rect = <<>>
    /\ poly = <<>>
    /\ stage = 0
    /\ tri \in TriInputs
    /\ calls = 0
    /\ answer = None
    /\ adjacency = <<>>
    /\ points_in = <<>>

\* the property circumcenter storing the centre alone, not the radius
TriCircumcenter_centre_only ==
    /\ pc = "triangle"
    /\ calls < MaxCalls
    /\ tri' = IF tri.cc.kind = "None"
              THEN [tri EXCEPT !.cc = compute_circumcircle_double(tri).cc]
              ELSE tri
    /\ answer' = [call |-> "circumcenter", value |-> tri'.cc,
                  computed |-> tri.cc.kind = "None"]
    /\ calls' = calls + 1
    /\ UNCHANGED <<points, pc, idx, triangulation, super_verts, triangles, bbox,
                   cells, hcells, clipper, adjacency, points_in>>

\* the property circumcenter, lines 52-56
TriCircumcenter ==
    /\ pc = "triangle"
    /\ calls < MaxCalls
    /\ tri' = IF tri.cc.kind = "None" THEN compute_circumcircle_double(tri) ELSE tri
    /\ answer' = [call |-> "circumcenter", value |-> tri'.cc,
                  computed |-> tri.cc.kind = "None"]
    /\ calls' = calls + 1
    /\ UNCHANGED <<points, pc, idx, triangulation, super_verts, triangles, bbox,
                   cells, hcells, clipper, adjacency, points_in>>

\* the property circumradius2, lines 58-62
TriCircumradius2 ==
    /\ pc = "triangle"
    /\ calls < MaxCalls
    /\ tri' = IF tri.cr2.kind = "None" THEN compute_circumcircle_double(tri) ELSE tri
    /\ answer' = [call |-> "circumradius2", value |-> tri'.cr2,
                  computed |-> tri.cr2.kind = "None"]
    /\ calls' = calls + 1
    /\ UNCHANGED <<points, pc, idx, triangulation, super_verts, triangles, bbox,
                   cells, hcells, clipper, adjacency, points_in>>

\* in_circumcircle(p), lines 66-74, for a point p of the grid
TriInCircumcircle ==
    /\ pc = "triangle"
    /\ calls < MaxCalls
    /\ tri' = CachedDouble(tri)
    /\ \E p \in TriPoints(tri) :
           answer' = [call |-> "in_circumcircle", p |-> p,
                      value |-> in_circumcircle_double(tri', p),
                      computed |-> tri.cr2.kind = "None"]
    /\ calls' = calls + 1
    /\ UNCHANGED <<points, pc, idx, triangulation, super_verts, triangles, bbox,
                   cells, hcells, clipper, adjacency, points_in>>

\* compute_voronoi on the vertices, with the new Triangle in the list of
\* triangles and the extent of the vertices with a margin as the rectangle;
\* it reads the circumcenter of every triangle that has a site as a vertex
TriVoronoi ==
    /\ pc = "triangle"
    /\ calls = 0
    /\ {tri.a, tri.b, tri.c} \subseteq Grid(1)
    /\ \E others \in Companions(tri) :
           /\ triangles' = <<tri>> \o others
           /\ points' = Distinct(<<tri.a, tri.b, tri.c>>
                                     \o [k \in DOMAIN others |-> others[k].c],
                                 3 + Len(others))
    /\ bbox' = Extent(points', Stored(1))
    /\ cells' = compute_voronoi(points', triangles', bbox')
    /\ tri' = CachedDouble(tri)
    /\ answer' = [call |-> "compute_voronoi",
                  computed |-> tri.cc.kind = "None"]
    /\ calls' = calls + 1
    /\ pc' = "triangle_voronoi"
    /\ UNCHANGED <<idx, triangulation, super_verts, hcells, clipper, adjacency, points_in>>

TriNext == TriCircumcenter \/ TriCircumradius2 \/ TriInCircumcircle \/ TriVoronoi

TriSpec == TriInit /\ [][TriNext]_vars

\* ---- bowyer_watson in the arithmetic of the floats --------------------------
\* The same call on the lists of up to MaxWide distinct points of the grid
\* stretched by Wide, with every circle computed and compared as the floats
\* of Python do.  The super-triangle is made of sums and halves that the
\* floats hold exactly.
WideInputs == UNION {Lists(Grid(Wide), n) : n \in 0..MaxWide}

WideInit ==
    /\ points \in WideInputs
    /\ pc = "call"
    /\ idx = 0
    /\ triangulation = <<>>
    /\ super_verts = <<>>
    /\ triangles = <<>>
    /\ bbox = <<>>
    /\ cells = <<>>
    /\ hcells = <<>>
    /\ polygon = <<>>
    /\ rect = <<>>
    /\ poly = <<>>
    /\ stage = 0
    /\ tri = None
    /\ calls = 0
    /\ answer = None
    /\ adjacency = <<>>
    /\ points_in = <<>>

\* bowyer_watson, lines 31-36
WideEnter ==
    /\ pc = "call"
    /\ IF Len(points) < 3
       THEN /\ pc' = "returned_wide"
            /\ triangles' = <<>>
            /\ UNCHANGED <<idx, triangulation, super_verts>>
       ELSE /\ pc' = "loop_wide"
            /\ triangulation' = <<build_super_triangle(points)>>
            /\ super_verts' = SuperVerts(points)
            /\ idx' = 1
            /\ UNCHANGED triangles
    /\ UNCHANGED <<points, bbox, cells>>
    /\ UNCHANGED <<hcells, clipper, extra>>

\* bowyer_watson, lines 38-46: one point
WideInsert ==
    /\ pc = "loop_wide"
    /\ idx <= Len(points)
    /\ triangulation' = InsertPointDouble(triangulation, points[idx])
    /\ idx' = idx + 1
    /\ UNCHANGED <<points, pc, super_verts, triangles, bbox, cells>>
    /\ UNCHANGED <<hcells, clipper, extra>>

\* bowyer_watson, line 48
WideReturn ==
    /\ pc = "loop_wide"
    /\ idx > Len(points)
    /\ triangles' = WithoutSuper(triangulation, super_verts)
    /\ pc' = "returned_wide"
    /\ UNCHANGED <<points, idx, triangulation, super_verts, bbox, cells>>
    /\ UNCHANGED <<hcells, clipper, extra>>

WideNext == WideEnter \/ WideInsert \/ WideReturn

WideSpec == WideInit /\ [][WideNext]_vars

\* ---- vocabulary of the properties ----------------------------------------
N == Len(points)
PointSet == {points[k] : k \in 1..N}
Verts(t) == {t.a, t.b, t.c}
IsVertex(p, t) == pts_equal(p, t.a) \/ pts_equal(p, t.b) \/ pts_equal(p, t.c)
TriSet(T) == {Verts(T[k]) : k \in 1..Len(T)}
Cross(a, b, c) ==
    (b[1] - a[1]) * (c[2] - a[2]) - (b[2] - a[2]) * (c[1] - a[1])
\* all the points of the sequence on one line
Collinear(pts) ==
    \A i, j, k \in 1..Len(pts) : Cross(pts[i], pts[j], pts[k]) = 0
Returned == pc = "returned"
\* every step of a call that is under way is a Running step
RunningSteps == [][(pc \in {"call", "loop"}) => Running]_vars

C2_NoSuperVertex ==
    (Returned /\ N >= 3) =>
        \A k \in 1..Len(triangles) : \A v \in Verts(triangles[k]) :
            /\ v \in PointSet
            /\ \A s \in 1..3 : ~pts_equal(v, SuperVerts(points)[s])

\* C2 witness: triangles were returned after the super-triangle was removed
C2_Witness ==
    /\ Returned
    /\ Len(triangles) >= 2
    /\ Len(triangles) < Len(triangulation)

\* C3: insufficient input is not an error.  For 0, 1 or 2 points
\* bowyer_watson returns an empty list, and compute_voronoi on it returns an
\* empty mapping; neither raises.
C3_InsufficientInput ==
    (N < 3 /\ pc \in {"returned", "voronoi", "raised"}) =>
        /\ triangles = <<>>
        /\ pc # "raised"
        /\ DOMAIN cells = {}

\* C4: triangle-count bound.  For n >= 3 distinct points that are not all
\* collinear, the number T of returned triangles has n - 2 <= T <= 2n.
C4_TriangleCount ==
    (Returned /\ N >= 3 /\ ~Collinear(points)) =>
        (N - 2 <= Len(triangles) /\ Len(triangles) <= 2 * N)

\* C5: three points that are not collinear give exactly one triangle, whose
\* vertices are the three points.
C5_ThreePoints ==
    (Returned /\ N = 3 /\ ~Collinear(points)) =>
        (Len(triangles) = 1 /\ Verts(triangles[1]) = PointSet)

\* the four corners of an axis-aligned square, in any order
IsSquare(pts) ==
    /\ Len(pts) = 4
    /\ \E x0 \in {pts[k][1] : k \in 1..4} : \E y0 \in {pts[k][2] : k \in 1..4} :
       \E d \in {pts[k][1] - x0 : k \in 1..4} \ {0} :
           {pts[k] : k \in 1..4}
               = {<<x0, y0>>, <<x0 + d, y0>>, <<x0, y0 + d>>, <<x0 + d, y0 + d>>}

C7_CollinearTerminates ==
    (pc = "call" /\ N >= 3 /\ Collinear(points)) ~> (pc = "returned")

\* C7 witness: the call returned for collinear points, after the loop
C7_Witness ==
    Returned /\ N >= 3 /\ Collinear(points) /\ idx = N + 1

\* C8: every input point is used.  For n >= 3 distinct points that are not
\* all collinear, each point is a vertex of a returned triangle.
C8_EveryPointUsed ==
    (Returned /\ N >= 3 /\ ~Collinear(points)) =>
        \A j \in 1..N : \E k \in 1..Len(triangles) :
            IsVertex(points[j], triangles[k])

\* p exactly on the circumcircle of the triangle (a, b, c)
OnCircle(a, b, c, p) ==
    LET t == compute_circumcircle(Triangle(a, b, c))
    IN  /\ t.cr2.kind = "finite"
        /\ BAdd(BSq(BSub(BScale(p[1], t.cc.D), t.cc.nx)),
                BSq(BSub(BScale(p[2], t.cc.D), t.cc.ny))) = t.cr2.r2

\* general position: distinct points, no three on a line, no four on a circle
GeneralPosition(pts) ==
    /\ \A i, j, k \in 1..Len(pts) :
           (i < j /\ j < k) => Cross(pts[i], pts[j], pts[k]) # 0
    /\ \A i, j, k, l \in 1..Len(pts) :
           (i < j /\ j < k /\ k < l) => ~OnCircle(pts[i], pts[j], pts[k], pts[l])

PointLess(a, b) == a[1] < b[1] \/ (a[1] = b[1] /\ a[2] < b[2])

\* the points of a set in increasing order: one reference ordering of the set
RECURSIVE Ordered(_)
Ordered(S) ==
    IF S = {} THEN <<>>
    ELSE LET m == CHOOSE a \in S : \A b \in S \ {a} : PointLess(a, b)
         IN  <<m>> \o Ordered(S \ {m})

\* C9: insertion-order independence.  For points in general position, the
\* set of returned triangles (as unordered vertex triples) is the one the
\* reference ordering of the same points gives, so any two orderings agree.
C9_OrderIndependent ==
    (Returned /\ N >= 3 /\ GeneralPosition(points)) =>
        TriSet(triangles) = TriSet(bowyer_watson(Ordered(PointSet)))

\* C9 witness: four points in general position, given in an order that is
\* not the reference one, for which triangles were returned
C9_Witness ==
    /\ Returned
    /\ N = 4
    /\ GeneralPosition(points)
    /\ points # Ordered(PointSet)
    /\ Len(triangles) >= 2

\* ---- the clipping ----------------------------------------------------------
Clipped == pc = "idle" /\ stage = 4
InRect(p, r) == r[1] <= p[1] /\ p[1] <= r[2] /\ r[3] <= p[2] /\ p[2] <= r[4]
AllInRect(g, r) == \A k \in 1..Len(g) : InRect(g[k], r)
\* the polygon after the first k stages
RECURSIVE Staged(_, _, _)
Staged(g, r, k) ==
    IF k = 0 THEN g ELSE clip_half_plane(Staged(g, r, k - 1), k, r)

\* C11: clip containment.  For every polygon, convex or not, and every
\* rectangle with xmin <= xmax and ymin <= ymax, every vertex that
\* sutherland_hodgman returns lies in the rectangle.
C11_ClipContained == Clipped => AllInRect(poly, rect)

\* C11 witness: a clip that cut edges of a polygon with vertices outside the
\* rectangle and kept at least 3 vertices
C11_Witness ==
    /\ Clipped
    /\ Len(poly) >= 3
    /\ ~AllInRect(polygon, rect)
    /\ \E k \in 1..Len(poly) : \A j \in 1..Len(polygon) : poly[k] # polygon[j]

\* C12: the clip of a polygon that is inside is the identity.  If every
\* vertex of the polygon lies inside or on the rectangle, sutherland_hodgman
\* returns the same vertices in the same order; so clipping what a clip
\* returned changes nothing.
C12_InsideUnchanged ==
    Clipped =>
        /\ AllInRect(polygon, rect) => poly = polygon
        /\ sutherland_hodgman(poly, rect) = poly

\* C12 witness: a polygon of 3 vertices or more inside the rectangle, one of
\* them on its boundary, was clipped
C12_Witness ==
    /\ Clipped
    /\ Len(polygon) >= 3
    /\ AllInRect(polygon, rect)
    /\ \E k \in 1..Len(polygon) : polygon[k][1] = rect[1]
    /\ poly = polygon

\* a point or a rectangle of the unit grid back in stored units
FromFix(t) == [k \in DOMAIN t |-> t[k] \div Fix]
Sgn(x) == IF x > 0 THEN 1 ELSE IF x < 0 THEN 0 - 1 ELSE 0
Orient(a, b, c) == Sgn(Cross(a, b, c))
\* p, on the line through a and b, lies on the segment from a to b
OnSeg(a, b, p) ==
    /\ Min(a[1], b[1]) <= p[1] /\ p[1] <= Max(a[1], b[1])
    /\ Min(a[2], b[2]) <= p[2] /\ p[2] <= Max(a[2], b[2])
\* the closed segments from a to b and from c to d have a common point
SegMeet(a, b, c, d) ==
    \/ Orient(a, b, c) # Orient(a, b, d) /\ Orient(c, d, a) # Orient(c, d, b)
    \/ Orient(a, b, c) = 0 /\ OnSeg(a, b, c)
    \/ Orient(a, b, d) = 0 /\ OnSeg(a, b, d)
    \/ Orient(c, d, a) = 0 /\ OnSeg(c, d, a)
    \/ Orient(c, d, b) = 0 /\ OnSeg(c, d, b)
\* the vertex after position k of polygon g
NextV(g, k) == g[IF k = Len(g) THEN 1 ELSE k + 1]
\* a simple polygon: 3 distinct vertices or more, and two edges meet only in
\* the vertex they share
Simple(g) ==
    /\ Len(g) >= 3
    /\ \A j, k \in 1..Len(g) : j # k => g[j] # g[k]
    /\ \A j, k \in 1..Len(g) :
           (j < k /\ k # j + 1 /\ ~(j = 1 /\ k = Len(g)))
               => ~SegMeet(g[j], NextV(g, j), g[k], NextV(g, k))
    /\ \A k \in 1..Len(g) :
           ~(Orient(g[k], NextV(g, k), NextV(g, IF k = Len(g) THEN 1 ELSE k + 1)) = 0
             /\ OnSeg(g[k], NextV(g, k), NextV(g, IF k = Len(g) THEN 1 ELSE k + 1)))
\* the segment from a to b has a point in rectangle r
SegMeetsRect(a, b, r) ==
    \/ InRect(a, r)
    \/ InRect(b, r)
    \/ SegMeet(a, b, <<r[1], r[3]>>, <<r[2], r[3]>>)
    \/ SegMeet(a, b, <<r[2], r[3]>>, <<r[2], r[4]>>)
    \/ SegMeet(a, b, <<r[2], r[4]>>, <<r[1], r[4]>>)
    \/ SegMeet(a, b, <<r[1], r[4]>>, <<r[1], r[3]>>)
\* how many times polygon g winds around a point p that is not on its edges
Winding(p, g) ==
    Cardinality({k \in 1..Len(g) :
                    g[k][2] <= p[2] /\ NextV(g, k)[2] > p[2]
                        /\ Cross(g[k], NextV(g, k), p) > 0})
    - Cardinality({k \in 1..Len(g) :
                    g[k][2] > p[2] /\ NextV(g, k)[2] <= p[2]
                        /\ Cross(g[k], NextV(g, k), p) < 0})
\* polygon g, edges and inside, has no point in rectangle r
FullyOutside(g, r) ==
    /\ \A k \in 1..Len(g) : ~SegMeetsRect(g[k], NextV(g, k), r)
    /\ Winding(<<r[1], r[3]>>, g) = 0

\* C13: clip to empty.  The rectangle clip returns the empty list when the
\* polygon is empty or lies fully outside the rectangle, and once one of the
\* four stages gives an empty polygon the final result is empty.
C13_ClipToEmpty ==
    Clipped =>
        LET g == [k \in DOMAIN polygon |-> FromFix(polygon[k])]
        IN  /\ (polygon = <<>> \/ (Simple(g) /\ FullyOutside(g, FromFix(rect))))
                   => poly = <<>>
            /\ (\E k \in 1..4 : Staged(polygon, rect, k) = <<>>) => poly = <<>>

\* ---- the cells of compute_voronoi -----------------------------------------
\* compute_voronoi has returned its mapping
VorReturned == pc = "voronoi"

\* C14: boundedness of cells.  For every point list, its triangulation by
\* bowyer_watson and every rectangle, each vertex of each cell of the mapping
\* of compute_voronoi lies within the rectangle.
C14_CellsBounded ==
    \A i \in DOMAIN cells : AllInRect(cells[i], ToFix(bbox))

\* C14 witness: a mapping was returned in which a cell has a vertex, on the
\* left side of the rectangle, that is no circumcentre of the triangulation
C14_Witness ==
    /\ VorReturned
    /\ \E i \in DOMAIN cells : \E k \in 1..Len(cells[i]) :
        /\ cells[i][k][1] = ToFix(bbox)[1]
        /\ \A t \in 1..Len(triangles) :
               Cached(triangles[t]).cc.kind = "finite"
                   => circumcenter(Cached(triangles[t]).cc) # cells[i][k]

\* the site at position i is a vertex of a triangle with a finite circumcentre
HasFiniteCircumcenter(i) ==
    \E t \in 1..Len(triangles) :
        /\ IsVertex(points[i], triangles[t])
        /\ Cached(triangles[t]).cc.kind = "finite"

\* what _build_cell gives for the site at position i
CellOf(i) ==
    build_cell(i, points, triangles, build_adjacency(points, triangles)[i],
               find_hull_edges(triangles), centroid(points), far_of(bbox), bbox)

\* C15: cell cardinality.  Every site of the mapping of compute_voronoi has a
\* polygon of 3 vertices or more and a finite circumcentre; a site is absent
\* from the returned mapping exactly when _build_cell gave no polygon for it,
\* and for a list of one point or more the call does not raise.
C15_CellCardinality ==
    /\ \A i \in DOMAIN cells : Len(cells[i]) >= 3 /\ HasFiniteCircumcenter(i)
    /\ N >= 1 => pc # "raised"
    /\ VorReturned => DOMAIN cells = {i \in 1..N : CellOf(i) # None}

\* C15 witness: a mapping was returned without a site that has a finite
\* circumcentre, and with a site that comes later in the list
C15_Witness ==
    /\ VorReturned
    /\ \E j, k \in 1..N :
        /\ j < k
        /\ j \notin DOMAIN cells
        /\ HasFiniteCircumcenter(j)
        /\ k \in DOMAIN cells

\* the sign of (b - a) x (c - a) for points in fixed-point units
FixOrient(a, b, c) ==
    LET l == BMul(Big(b[1] - a[1]), Big(c[2] - a[2]))
        r == BMul(Big(b[2] - a[2]), Big(c[1] - a[1]))
    IN  IF BLess(r, l) THEN 1 ELSE IF BLess(l, r) THEN 0 - 1 ELSE 0

\* how many times polygon g winds around the point p, in fixed-point units
FixWinding(p, g) ==
    Cardinality({k \in 1..Len(g) :
                    g[k][2] <= p[2] /\ NextV(g, k)[2] > p[2]
                        /\ FixOrient(g[k], NextV(g, k), p) > 0})
    - Cardinality({k \in 1..Len(g) :
                    g[k][2] > p[2] /\ NextV(g, k)[2] <= p[2]
                        /\ FixOrient(g[k], NextV(g, k), p) < 0})

\* the tolerance of the comparisons of cells: a hundredth of a stored unit
Tol == Fix \div 100

\* p is within about Tol of the segment from a to b
NearSeg(p, a, b) ==
    /\ Min(a[1], b[1]) - Tol <= p[1] /\ p[1] <= Max(a[1], b[1]) + Tol
    /\ Min(a[2], b[2]) - Tol <= p[2] /\ p[2] <= Max(a[2], b[2]) + Tol
    /\ LET cr == BSub(BMul(Big(b[1] - a[1]), Big(p[2] - a[2])),
                      BMul(Big(b[2] - a[2]), Big(p[1] - a[1])))
       IN  ~BLess(Big(Tol * (Abs(b[1] - a[1]) + Abs(b[2] - a[2]) + Tol)),
                  BAbs(cr))

\* p lies inside polygon g or, up to Tol, on its boundary
InOrOn(p, g) ==
    \/ FixWinding(p, g) # 0
    \/ \E k \in 1..Len(g) : NearSeg(p, g[k], NextV(g, k))

\* C17: site containment.  For 3 or more distinct sites that are not all on
\* one line and a rectangle that contains them all, each site with a cell in
\* the mapping of compute_voronoi lies inside or on the boundary of its cell.
C17_SiteInCell ==
    (VorReturned /\ N >= 3 /\ ~Collinear(points) /\ AllInRect(points, bbox))
        => \A i \in DOMAIN cells : InOrOn(ToFix(points[i]), cells[i])

\* C18: full coverage.  For 3 or more distinct sites in general position and
\* the rectangle of their extent widened by a positive margin, the mapping of
\* compute_voronoi on the triangulation of bowyer_watson has a cell for every
\* site.
C18_FullCoverage ==
    (VorReturned /\ N >= 3 /\ GeneralPosition(points)
                 /\ bbox = Extent(points, Stored(1)))
        => DOMAIN cells = 1..N

\* twice the signed area of polygon g (the shoelace sum), from position k on
RECURSIVE SignedArea2(_, _)
SignedArea2(g, k) ==
    IF k > Len(g) THEN Big(0)
    ELSE BAdd(BSub(BMul(Big(g[k][1]), Big(NextV(g, k)[2])),
                   BMul(Big(NextV(g, k)[1]), Big(g[k][2]))),
              SignedArea2(g, k + 1))

\* C19: counter-clockwise cells.  Every cell of the mapping of
\* compute_voronoi has a signed area that is not negative.
C19_CounterClockwise ==
    \A i \in DOMAIN cells : ~BIsNeg(SignedArea2(cells[i], 1))

\* C19 witness: a mapping was returned with a cell of 4 vertices or more and
\* of positive area, for a site whose cell has far points
C19_Witness ==
    /\ VorReturned
    /\ \E i \in DOMAIN cells :
        /\ Len(cells[i]) >= 4
        /\ ~BIsZero(SignedArea2(cells[i], 1))
        /\ \E k \in 1..Len(cells[i]) : cells[i][k][2] = ToFix(bbox)[4]

\* ---- the cells of build_voronoi_from_delaunay -----------------------------
\* C16: cell cardinality in the half-plane builder.  The mapping of
\* build_voronoi_from_delaunay has, for each point, no entry or a polygon of
\* 3 vertices or more.
C16_HalfPlaneCardinality ==
    \A i \in DOMAIN hcells : Len(hcells[i]) >= 3

\* every vertex of polygon g lies, up to Tol, on the boundary of polygon h
OnBoundaryOf(g, h) ==
    \A k \in 1..Len(g) : \E j \in 1..Len(h) : NearSeg(g[k], h[j], NextV(h, j))

\* the two builders give the same cell for the site at position i: both give
\* none, or polygons with the same boundary
SameCell(i) ==
    IF i \in DOMAIN cells
    THEN /\ Len(hcells[i]) >= 3
         /\ OnBoundaryOf(cells[i], hcells[i])
         /\ OnBoundaryOf(hcells[i], cells[i])
    ELSE Len(hcells[i]) < 3

\* C20: the two constructions agree.  For sites in general position and a
\* rectangle that contains them all, the cell compute_voronoi gives for a
\* site and the cell build_voronoi_from_delaunay gives for it, from the same
\* triangles, are the same polygon up to the tolerance, the starting vertex
\* and repeated or collinear vertices.
C20_BuildersAgree ==
    (pc = "diagram" /\ N >= 3 /\ GeneralPosition(points)
                    /\ AllInRect(points, bbox))
        => \A i \in 1..N : SameCell(i)

\* ---- calls on one Triangle -------------------------------------------------
\* the three vertices on one line (or not distinct): the determinant D is 0
Degenerate(t) == Cross(t.a, t.b, t.c) = 0

\* a call was made on the Triangle
Called == pc \in {"triangle", "triangle_voronoi"} /\ calls > 0

\* the positions of a list of positions that are not the one of the Triangle,
\* which compute_voronoi has at position 1
Others(seq) == SelectSeq(seq, LAMBDA k : k # 1)

\* C21: degenerate triangles are inert.  A Triangle with |D| < EPS has the
\* circumcentre (inf, inf) and the squared radius inf, in_circumcircle is
\* false of every point, the triangle gives no finite vertex and no far point
\* to a cell, and every coordinate of every cell of compute_voronoi is a
\* finite number.
C21_DegenerateInert ==
    (Called /\ Degenerate(tri)) =>
        /\ tri.cc = Inf /\ tri.cr2 = Inf
        /\ answer.call \in {"circumcenter", "circumradius2"}
               => answer.value = Inf
        /\ answer.call = "in_circumcircle" => answer.value = FALSE
        /\ answer.call = "compute_voronoi" =>
            /\ \A i \in 1..N :
                LET adj == build_adjacency(points, triangles)[i]
                    hull == find_hull_edges(triangles)
                IN  /\ finite_verts(adj, triangles)
                           = finite_verts(Others(adj), triangles)
                    /\ compute_far_vertices(points[i], hull, centroid(points),
                                            far_of(bbox), triangles)
                           = compute_far_vertices(
                                 points[i],
                                 SelectSeq(hull, LAMBDA x : x.tri # 1),
                                 centroid(points), far_of(bbox), triangles)
            /\ \A i \in DOMAIN cells : \A k \in 1..Len(cells[i]) :
                   cells[i][k][1] \in Int /\ cells[i][k][2] \in Int

\* C21 witnesses: in_circumcircle was asked of a triangle with three distinct
\* vertices on a line, about a point between two of them; and compute_voronoi
\* returned a cell for a list with such a triangle in it
C21_Witness ==
    /\ Called /\ Degenerate(tri)
    /\ tri.a # tri.b /\ tri.b # tri.c /\ tri.a # tri.c
    /\ answer.call = "in_circumcircle"
    /\ answer.p[1] + answer.p[1] = tri.a[1] + tri.c[1]
    /\ answer.p[2] + answer.p[2] = tri.a[2] + tri.c[2]

C21_VoronoiWitness ==
    /\ Called /\ Degenerate(tri)
    /\ tri.a # tri.b /\ tri.b # tri.c /\ tri.a # tri.c
    /\ answer.call = "compute_voronoi"
    /\ Len(triangles) = 2
    /\ DOMAIN cells # {}

\* the sign of a whole number
Sign(n) == IF n > 0 THEN 1 ELSE IF n < 0 THEN 0 - 1 ELSE 0

\* the sign of the in-circle determinant of p against the circle through a, b,
\* c (grid points, taken in whole units), times the orientation of a, b, c:
\* 1 when p is strictly inside the circle, 0 when p is on it, -1 when p is
\* outside
InCircleDet(a, b, c, p) ==
    LET ax == (a[1] - p[1]) \div Stored(1)
        ay == (a[2] - p[2]) \div Stored(1)
        bx == (b[1] - p[1]) \div Stored(1)
        by == (b[2] - p[2]) \div Stored(1)
        cx == (c[1] - p[1]) \div Stored(1)
        cy == (c[2] - p[2]) \div Stored(1)
    IN  Sign(Cross(a, b, c))
            * Sign((ax * ax + ay * ay) * (bx * cy - cx * by)
                   - (bx * bx + by * by) * (ax * cy - cx * ay)
                   + (cx * cx + cy * cy) * (ax * by - bx * ay))

\* the last call on the Triangle was in_circumcircle
AskedInCircle ==
    pc = "triangle" /\ calls > 0 /\ answer.call = "in_circumcircle"

\* C22: strict in-circle test.  For a triangle that is not degenerate,
\* in_circumcircle(p) is false of every point p exactly on the circumcircle,
\* the three vertices of the triangle among them, and it is true only of
\* points strictly inside the circle.
C22_StrictInCircle ==
    (AskedInCircle /\ ~Degenerate(tri)) =>
        /\ answer.p \in Verts(tri) => answer.value = FALSE
        /\ InCircleDet(tri.a, tri.b, tri.c, answer.p) = 0
               => answer.value = FALSE
        /\ answer.value = TRUE
               => InCircleDet(tri.a, tri.b, tri.c, answer.p) > 0

\* C23: lazy memoization of the circumcircle.  The cached centre and radius
\* of a Triangle are both unset after construction, both set by the first
\* call of circumcenter, circumradius2 or in_circumcircle (or of a function
\* that reads them), and no later call computes them again or changes them.
C23_LazyMemoization ==
    [][pc = "triangle" =>
          /\ calls = 0 => (tri.cc = None /\ tri.cr2 = None /\ answer'.computed)
          /\ tri'.cc # None /\ tri'.cr2 # None
          /\ calls > 0 => (tri' = tri /\ ~answer'.computed)
          /\ <<tri'.a, tri'.b, tri'.c>> = <<tri.a, tri.b, tri.c>>]_vars

\* C23 witness: a second call was answered from the stored circle
C23_Witness ==
    /\ pc = "triangle"
    /\ calls = 2
    /\ answer.call = "circumradius2"
    /\ ~answer.computed
    /\ tri.cr2 # None /\ tri.cr2 # Inf

\* ---- the super-triangle -----------------------------------------------------
\* p strictly inside the triangle of the three points of s: p is strictly on
\* the same side of the three edges
StrictlyInside(p, s) ==
    LET c1 == Cross(s[1], s[2], p)
        c2 == Cross(s[2], s[3], p)
        c3 == Cross(s[3], s[1], p)
    IN  (c1 > 0 /\ c2 > 0 /\ c3 > 0) \/ (c1 < 0 /\ c2 < 0 /\ c3 < 0)

\* a super-triangle was built
SuperBuilt == pc \in {"super", "super_gpt"}

\* C24: the super-triangle encloses the input.  For every list of points
\* that is not empty, those of zero extent in x or in y included, every point
\* of the list is strictly inside the triangle of _build_super_triangle (and
\* of the CHATGPT _super_triangle), and no vertex of that triangle is
\* pts_equal to a point of the list.
C24_SuperEncloses ==
    SuperBuilt =>
        \A k \in 1..N :
            /\ StrictlyInside(points[k], super_verts)
            /\ \A j \in 1..3 : ~pts_equal(super_verts[j], points[k])

\* C24 witness: _build_super_triangle was called on points of one vertical
\* line, a list of zero extent in x
C24_Witness ==
    /\ pc = "super"
    /\ N >= 2
    /\ \A k \in 1..N : points[k][1] = points[1][1]
    /\ \E k \in 1..N : points[k][2] # points[1][2]

\* ---- the CHATGPT bowyer_watson ----------------------------------------------
\* the CHATGPT bowyer_watson has returned
GptReturned == pc = "returned_gpt"

\* the points of the argument
InputSet == {points_in[k] : k \in 1..Len(points_in)}

\* C25: the adjacency of the CHATGPT bowyer_watson.  Every point of the
\* argument, taken once, is a key of neighbors; for two points p and q, q is
\* in neighbors[p] exactly when a returned triangle has both as vertices; the
\* relation is symmetric and no point is its own neighbor; with one returned
\* triangle each of its vertices has 2 neighbors, and with fewer than 3
\* points every set is empty.
C25_Adjacency ==
    GptReturned =>
        /\ DOMAIN adjacency = InputSet
        /\ \A p, q \in InputSet :
               p # q => (q \in adjacency[p]
                            <=> \E k \in 1..Len(triangles) :
                                    {p, q} \subseteq Verts(triangles[k]))
        /\ \A p \in InputSet :
               /\ adjacency[p] \subseteq InputSet
               /\ p \notin adjacency[p]
               /\ \A q \in adjacency[p] : p \in adjacency[q]
        /\ Len(triangles) = 1 =>
               \A p \in Verts(triangles[1]) : Cardinality(adjacency[p]) = 2
        /\ Cardinality(InputSet) < 3 =>
               \A p \in InputSet : adjacency[p] = {}

\* C25 witness: two triangles were returned, a point of both has three
\* neighbors and a point of one of them has two
C25_Witness ==
    /\ GptReturned
    /\ Len(triangles) = 2
    /\ \E p \in InputSet : Cardinality(adjacency[p]) = 3
    /\ \E p \in InputSet : Cardinality(adjacency[p]) = 2

\* ---- the insertion step of bowyer_watson ------------------------------------
\* the loop of bowyer_watson is about to insert points[idx]
Inserting == pc = "loop" /\ idx <= N

\* two edges with the same two end points, in either direction
SameEdge(e, f) == {e[1], e[2]} = {f[1], f[2]}

\* the triangles of W, among those at the positions bad, that have the edge e
OwnersOf(e, W, bad) ==
    {i \in bad : \E f \in 1..3 : SameEdge(edges(W[i])[f], e)}

\* P(W, bad, B) for the working list W as _find_bad_triangles leaves it, the
\* positions bad of the bad triangles of the point to insert and the boundary
\* B of their union
AtInsertion(P(_, _, _)) ==
    \E W \in {CachedAll(triangulation, 1)} :
        \E bad \in {find_bad_triangles(points[idx], W)} :
            \E B \in {find_boundary(bad, W)} :
                P(W, {bad[k] : k \in 1..Len(bad)}, B)

\* C26: the cavity boundary.  In each insertion step _find_boundary returns
\* an edge of a bad triangle exactly when no other bad triangle has an equal
\* undirected edge: an edge that two bad triangles share is returned zero
\* times, an edge of one bad triangle alone once, and every returned edge
\* belongs to exactly one bad triangle.
C26_CavityBoundary ==
    LET holds(W, bad, B) ==
            /\ \A i \in bad : \A f \in 1..3 :
                   Cardinality({k \in 1..Len(B) :
                                   SameEdge(B[k], edges(W[i])[f])})
                       = IF OwnersOf(edges(W[i])[f], W, bad) = {i}
                         THEN 1 ELSE 0
            /\ \A k \in 1..Len(B) : Cardinality(OwnersOf(B[k], W, bad)) = 1
    IN  Inserting => AtInsertion(holds)

\* C26 witness: an insertion step with three bad triangles, two of which
\* share an edge
C26_Witness ==
    LET shares(W, bad, B) ==
            /\ Cardinality(bad) = 3
            /\ \E i \in bad : \E f \in 1..3 :
                   Cardinality(OwnersOf(edges(W[i])[f], W, bad)) = 2
    IN  Inserting /\ AtInsertion(shares)

\* the three vertices of t on one line
Flat(t) == Cross(t.a, t.b, t.c) = 0

InsideAt(g, side, i) == inside_fn(side, rect, g[i])

\* the position before i, the last one before the first
PrevAt(g, i) == IF i = 1 THEN Len(g) ELSE i - 1

\* the edge that ends at vertex i of g crosses the boundary of the stage
CrossesAt(g, side, i) == InsideAt(g, side, i) # InsideAt(g, side, PrevAt(g, i))

\* what the vertices of g before vertex i contribute: one point for each
\* vertex inside and one for each edge that crosses the boundary
EmittedBefore(g, side, i) ==
    Cardinality({j \in 1..(i - 1) : InsideAt(g, side, j)})
        + Cardinality({j \in 1..(i - 1) : CrossesAt(g, side, j)})

\* the rule of one stage, from the polygon poly that it reads to the polygon
\* that it leaves
StageRule(g, side) ==
    /\ Len(poly') = EmittedBefore(g, side, Len(g) + 1)
    /\ \A i \in 1..Len(g) :
           LET at == EmittedBefore(g, side, i)
               cut == intersect_fn(side, rect, g[PrevAt(g, i)], g[i])
           IN  IF InsideAt(g, side, i)
               THEN IF ~InsideAt(g, side, PrevAt(g, i))
                    THEN /\ poly'[at + 1] = cut
                         /\ poly'[at + 2] = g[i]
                         /\ EmittedBefore(g, side, i + 1) = at + 2
                    ELSE /\ poly'[at + 1] = g[i]
                         /\ EmittedBefore(g, side, i + 1) = at + 1
               ELSE IF InsideAt(g, side, PrevAt(g, i))
                    THEN /\ poly'[at + 1] = cut
                         /\ EmittedBefore(g, side, i + 1) = at + 1
                    ELSE EmittedBefore(g, side, i + 1) = at

\* C28: one stage of Sutherland-Hodgman.  _clip_half_plane walks the vertices
\* in order, each with its cyclic predecessor, and for the edge prev -> cur
\* emits the intersection and then cur when cur is inside and prev outside,
\* only cur when both are inside, only the intersection when cur is outside
\* and prev inside, and nothing when both are outside; the output has as many
\* points as there are vertices inside plus edges that cross the boundary.
C28_HalfPlaneStep == [][stage' = stage + 1 => StageRule(poly, stage')]_vars

\* C28 witness: a stage has read a polygon with the four kinds of edges
C28_Witness ==
    /\ pc = "idle"
    /\ stage >= 1
    /\ \E g \in {Staged(polygon, rect, stage - 1)} :
           \A cur, prev \in BOOLEAN :
               \E i \in 1..Len(g) :
                   /\ InsideAt(g, stage, i) = cur
                   /\ InsideAt(g, stage, PrevAt(g, i)) = prev

\* the triangles of W at the positions that are not in bad, in their order
KeptOf(W, bad) ==
    LET kept == SelectSeq(Indices(W), LAMBDA i : i \notin bad)
    IN  [k \in 1..Len(kept) |-> W[kept[k]]]

\* one pass of the loop, from the working list W and the positions bad of its
\* bad triangles to the new working list: as many triangles as before plus
\* two, the triangles that are not bad first, as they were and in their
\* order, the bad ones being those whose circle has the point inside, then new
\* triangles that all have the point as a vertex
InsertionStep(W, bad, B) ==
    /\ Len(triangulation') = Len(triangulation) - Cardinality(bad)
                                 + (Cardinality(bad) + 2)
    /\ SubSeq(triangulation', 1, Len(W) - Cardinality(bad)) = KeptOf(W, bad)
    /\ \A i \in 1..Len(W) : i \in bad <=> in_circumcircle(W[i], points[idx])
    /\ \A k \in (Len(W) - Cardinality(bad) + 1)..Len(triangulation') :
           /\ triangulation'[k].c = points[idx]
           /\ \A i \in 1..Len(W) :
                  i \notin bad => Verts(W[i]) # Verts(triangulation'[k])

WideInserted == pc = "loop_wide" /\ idx >= 2

\* C29: the loop invariant of Bowyer-Watson.  After each insertion step of
\* bowyer_watson no triangle of the working triangulation has an already
\* inserted point strictly inside its circumcircle (in_circumcircle is false
\* for every inserted point that is not one of its vertices), and the point
\* just inserted is a vertex of at least one triangle of the working
\* triangulation.
C29_LoopInvariant ==
    WideInserted =>
        \E W \in {CachedAllDouble(triangulation, 1)} :
            /\ \A k \in 1..Len(W) : \A j \in 1..(idx - 1) :
                   ~IsVertex(points[j], W[k])
                       => ~in_circumcircle_double(W[k], points[j])
            /\ \E k \in 1..Len(W) : IsVertex(points[idx - 1], W[k])

====
